---- MODULE Spec2Model ----
(***************************************************************************)
(* The account getters of src/get/account.cpp: eight getter classes, each  *)
(* holding validated fields and a URL rebuilt from them by _build(), and   *)
(* the C ABI (Create / Destroy / Get / Set) through which a proxy          *)
(* {obj, type_id} reaches them.                                            *)
(*                                                                         *)
(* Strings are TLA+ strings, read character by character with SubSeq, so   *)
(* that percent-encoding, upper-casing, ISO-8601 validation and the        *)
(* decimal rendering of integers are computed, not assumed.                *)
(***************************************************************************)
EXTENDS Integers, Sequences, FiniteSets, TLC

\* The fields of the records of this module, numbered in the order in which
\* every record lists them.
FieldOrder ==
    [thrown |-> 1, kind |-> 2, pcreds |-> 3, account_id |-> 4, url |-> 5,
     positions |-> 6, orders |-> 7, transaction_id |-> 8,
     transaction_type |-> 9, symbol |-> 10, start_date |-> 11,
     end_date |-> 12, streamer_subscription_keys |-> 13,
     streamer_connection_info |-> 14, preferences |-> 15,
     surrogate_ids |-> 16, order_id |-> 17, nmax_results |-> 18,
     from_entered_time |-> 19, to_entered_time |-> 20,
     order_status_type |-> 21, null |-> 22, str |-> 23, obj |-> 24,
     type_id |-> 25, proxy |-> 26, op |-> 27, args |-> 28, ret |-> 29,
     out |-> 30, pc |-> 31, overlapped |-> 32]

\* ------------------------------------------------------------------ bounds

\* The longest list of pairs handed to util::build_encoded_query_str.
MaxPairs == 3

\* The largest in-range nmax_results a caller passes (0 and the negative
\* values are passed besides).
MaxNMax == 2

\* How many of the declared enum values (from 0) a caller passes, besides
\* one value below and one above the declared range.
MaxEnumArg == 1

\* ----------------------------------------------------------------- strings

CharAt(s, i) == SubSeq(s, i, i)

DigitSet == {"0", "1", "2", "3", "4", "5", "6", "7", "8", "9"}

Digits == "0123456789"

\* The value of a digit character.
DigitVal(c) == CHOOSE d \in 0..9 : CharAt(Digits, d + 1) = c

LowerSet == {"a", "b", "c", "d", "e", "f", "g", "h", "i", "j", "k", "l", "m",
             "n", "o", "p", "q", "r", "s", "t", "u", "v", "w", "x", "y", "z"}

UpperSet == {"A", "B", "C", "D", "E", "F", "G", "H", "I", "J", "K", "L", "M",
             "N", "O", "P", "Q", "R", "S", "T", "U", "V", "W", "X", "Y", "Z"}

Lower == "abcdefghijklmnopqrstuvwxyz"

Upper == "ABCDEFGHIJKLMNOPQRSTUVWXYZ"

\* The upper-case letter of a lower-case letter.
UpperOf(c) ==
    CharAt(Upper, CHOOSE i \in 1..Len(Lower) : CharAt(Lower, i) = c)

\* util::toupper: every lower-case letter replaced by its upper-case letter.
RECURSIVE toupper(_)
toupper(s) ==
    IF s = "" THEN ""
    ELSE (IF Head(s) \in LowerSet THEN UpperOf(Head(s)) ELSE Head(s))
         \o toupper(Tail(s))

\* The characters percent-encoding leaves alone (RFC 3986 unreserved).
Unreserved == LowerSet \cup UpperSet \cup DigitSet \cup {"-", "_", ".", "~"}

\* %XX of a reserved character, XX its ASCII code in upper-case hex.
PctEncoded(c) ==
    CASE c = " " -> "%20" [] c = "#" -> "%23" [] c = "%" -> "%25"
      [] c = "&" -> "%26" [] c = "+" -> "%2B" [] c = "," -> "%2C"
      [] c = "/" -> "%2F" [] c = ":" -> "%3A" [] c = "=" -> "%3D"
      [] c = "?" -> "%3F"

\* util::url_encode: percent-encodes every character that is not unreserved.
RECURSIVE url_encode(_)
url_encode(s) ==
    IF s = "" THEN ""
    ELSE (IF Head(s) \in Unreserved THEN Head(s) ELSE PctEncoded(Head(s)))
         \o url_encode(Tail(s))

\* unsigned int is 32 bits wide; a value is written <<hi, lo>>, its two
\* 16-bit halves (hi * 65536 + lo).  ToUnsigned is the conversion C applies
\* to a signed int argument of an unsigned int parameter: k modulo 2^32.
ToUnsigned(k) ==
    IF k >= 0 THEN <<k \div 65536, k % 65536>>
    ELSE LET m == (k + 2147483647) + 1
         IN  <<32768 + (m \div 65536), m % 65536>>

\* nmax_results < 1 on unsigned int.
LessThanOne(u) == u[1] = 0 /\ u[2] < 1

\* std::to_string(unsigned): the decimal digits of the value.
RECURSIVE to_string(_)
to_string(u) ==
    LET t == (u[1] % 10) * 65536 + u[2]
        q == <<u[1] \div 10, t \div 10>>
    IN  IF q = <<0, 0>> THEN CharAt(Digits, (t % 10) + 1)
        ELSE to_string(q) \o CharAt(Digits, (t % 10) + 1)

\* The number two characters of s at i and i+1 write, -1 if not two digits.
TwoDigits(s, i) ==
    IF CharAt(s, i) \in DigitSet /\ CharAt(s, i + 1) \in DigitSet
    THEN DigitVal(CharAt(s, i)) * 10 + DigitVal(CharAt(s, i + 1))
    ELSE -1

IsDatePart(s) ==
    /\ TwoDigits(s, 1) >= 0
    /\ TwoDigits(s, 3) >= 0
    /\ CharAt(s, 5) = "-"
    /\ TwoDigits(s, 6) \in 1..12
    /\ CharAt(s, 8) = "-"
    /\ TwoDigits(s, 9) \in 1..31

IsTimePart(s) ==
    /\ CharAt(s, 11) = "T"
    /\ TwoDigits(s, 12) \in 0..23
    /\ CharAt(s, 14) = ":"
    /\ TwoDigits(s, 15) \in 0..59
    /\ CharAt(s, 17) = ":"
    /\ TwoDigits(s, 18) \in 0..59

\* util::is_valid_iso8601_datetime: s is a complete ISO-8601 date
\* (YYYY-MM-DD) or date-time (YYYY-MM-DDTHH:MM:SS).
is_valid_iso8601_datetime(s) ==
    \/ Len(s) = 10 /\ IsDatePart(s)
    \/ Len(s) = 19 /\ IsDatePart(s) /\ IsTimePart(s)

\* util::build_encoded_query_str that writes every pair, the ones with an
\* empty value too.
RECURSIVE build_encoded_query_str_keeping_empty(_)
build_encoded_query_str_keeping_empty(params) ==
    IF params = <<>> THEN ""
    ELSE LET p    == Head(params)
             rest == build_encoded_query_str_keeping_empty(Tail(params))
         IN  url_encode(p[1]) \o "=" \o url_encode(p[2])
             \o (IF rest = "" THEN "" ELSE "&" \o rest)

\* util::build_encoded_query_str: the pairs with a non-empty value, each
\* as encoded key = encoded value, joined by & in their input order.
RECURSIVE build_encoded_query_str(_)
build_encoded_query_str(params) ==
    IF params = <<>> THEN ""
    ELSE LET p    == Head(params)
             rest == build_encoded_query_str(Tail(params))
         IN  IF p[2] = "" THEN rest
             ELSE url_encode(p[1]) \o "=" \o url_encode(p[2])
                  \o (IF rest = "" THEN "" ELSE "&" \o rest)

\* ------------------------------------------------------- constants, enums

URL_BASE == "https://api.tdameritrade.com/v1/"

URL_ACCOUNTS == URL_BASE \o "accounts/"

\* enum class TransactionType, by value from 0, as to_string writes it.
TransactionTypeNames ==
    <<"ALL", "TRADE", "BUY_ONLY", "SELL_ONLY", "CASH_IN_OR_CASH_OUT",
      "CHECKING", "DIVIDEND", "INTEREST", "OTHER", "ADVISOR_FEES">>

\* enum class OrderStatusType, by value from 0, as to_string writes it.
OrderStatusTypeNames ==
    <<"AWAITING_PARENT_ORDER", "AWAITING_CONDITION", "AWAITING_MANUAL_REVIEW",
      "ACCEPTED", "AWAITING_UR_OUT", "PENDING_ACTIVATION", "QUEUED",
      "WORKING", "REJECTED", "PENDING_CANCEL", "CANCELED", "PENDING_REPLACE",
      "REPLACED", "FILLED", "EXPIRED">>

TransactionType_is_valid(v) == v \in 0..(Len(TransactionTypeNames) - 1)

OrderStatusType_is_valid(v) == v \in 0..(Len(OrderStatusTypeNames) - 1)

\* to_string of an enum value; a value outside the enum has no name.
to_string_TransactionType(v) ==
    IF TransactionType_is_valid(v) THEN TransactionTypeNames[v + 1] ELSE ""

to_string_OrderStatusType(v) ==
    IF OrderStatusType_is_valid(v) THEN OrderStatusTypeNames[v + 1] ELSE ""

\* The type tags of the getters of this file.
TYPE_ID_GETTER_ACCOUNT_INFO == 10

TYPE_ID_GETTER_PREFERENCES == 11

TYPE_ID_GETTER_SUBSCRIPTION_KEYS == 12

TYPE_ID_GETTER_TRANSACTION_HISTORY == 13

TYPE_ID_GETTER_IND_TRANSACTION_HISTORY == 14

TYPE_ID_GETTER_USER_PRINCIPALS == 15

TYPE_ID_GETTER_ORDER == 17

TYPE_ID_GETTER_ORDERS == 18

\* --------------------------------------------------------- implementation

\* No object (nullptr).
NoObj == [kind |-> "nullptr"]

\* The outcome of a constructor or a method: the object as the call leaves
\* it, and whether the call threw (a constructor that throws leaves none).
Return(self) == [thrown |-> FALSE, obj |-> self]

Throw(self) == [thrown |-> TRUE, obj |-> self]

\* APIGetterImpl::set_url
set_url(self, url) == [self EXCEPT !.url = url]

\* AccountInfoGetterImpl::_build without its else-if branch: orders alone
\* adds nothing.
AccountInfoGetterImpl_build_without_else(self) ==
    LET fields == IF self.positions
                  THEN "?fields=positions" \o (IF self.orders THEN ",orders" ELSE "")
                  ELSE ""
    IN  set_url(self, URL_ACCOUNTS \o url_encode(self.account_id) \o fields)

AccountInfoGetterImpl_build(self) ==
    LET fields == IF self.positions
                  THEN "?fields=positions" \o (IF self.orders THEN ",orders" ELSE "")
                  ELSE IF self.orders THEN "?fields=orders" ELSE ""
    IN  set_url(self, URL_ACCOUNTS \o url_encode(self.account_id) \o fields)

PreferencesGetterImpl_build(self) ==
    set_url(self, URL_ACCOUNTS \o url_encode(self.account_id) \o "/preferences")

StreamerSubscriptionKeysGetterImpl_build(self) ==
    LET params == "?accountIds=" \o url_encode(self.account_id)
    IN  set_url(self, URL_BASE \o "userprincipals/streamersubscriptionkeys" \o params)

\* TransactionHistoryGetterImpl::_build with endDate placed before startDate.
TransactionHistoryGetterImpl_build_end_first(self) ==
    LET params ==
            << <<"type", to_string_TransactionType(self.transaction_type)>> >>
            \o (IF self.symbol # "" THEN << <<"symbol", self.symbol>> >> ELSE <<>>)
            \o (IF self.end_date # "" THEN << <<"endDate", self.end_date>> >> ELSE <<>>)
            \o (IF self.start_date # "" THEN << <<"startDate", self.start_date>> >> ELSE <<>>)
        qstr == build_encoded_query_str(params)
    IN  set_url(self, URL_ACCOUNTS \o url_encode(self.account_id)
                      \o "/transactions?" \o qstr)

TransactionHistoryGetterImpl_build(self) ==
    LET params ==
            << <<"type", to_string_TransactionType(self.transaction_type)>> >>
            \o (IF self.symbol # "" THEN << <<"symbol", self.symbol>> >> ELSE <<>>)
            \o (IF self.start_date # "" THEN << <<"startDate", self.start_date>> >> ELSE <<>>)
            \o (IF self.end_date # "" THEN << <<"endDate", self.end_date>> >> ELSE <<>>)
        qstr == build_encoded_query_str(params)
    IN  set_url(self, URL_ACCOUNTS \o url_encode(self.account_id)
                      \o "/transactions?" \o qstr)

IndividualTransactionHistoryGetterImpl_build(self) ==
    set_url(self, URL_ACCOUNTS \o url_encode(self.account_id)
                  \o "/transactions/" \o url_encode(self.transaction_id))

\* util::join(fields, ',')
RECURSIVE join(_, _)
join(fields, sep) ==
    IF fields = <<>> THEN ""
    ELSE IF Len(fields) = 1 THEN fields[1]
    ELSE fields[1] \o sep \o join(Tail(fields), sep)

\* UserPrincipalsGetterImpl::_build with preferences tested before
\* streamer_connection_info.
UserPrincipalsGetterImpl_build_preferences_first(self) ==
    LET fields ==
            (IF self.streamer_subscription_keys THEN <<"streamerSubscriptionKeys">> ELSE <<>>)
            \o (IF self.preferences THEN <<"preferences">> ELSE <<>>)
            \o (IF self.streamer_connection_info THEN <<"streamerConnectionInfo">> ELSE <<>>)
            \o (IF self.surrogate_ids THEN <<"surrogateIds">> ELSE <<>>)
        fields_str == IF fields # <<>> THEN "?fields=" \o join(fields, ",") ELSE ""
    IN  set_url(self, URL_BASE \o "userprincipals" \o fields_str)

UserPrincipalsGetterImpl_build(self) ==
    LET fields ==
            (IF self.streamer_subscription_keys THEN <<"streamerSubscriptionKeys">> ELSE <<>>)
            \o (IF self.streamer_connection_info THEN <<"streamerConnectionInfo">> ELSE <<>>)
            \o (IF self.preferences THEN <<"preferences">> ELSE <<>>)
            \o (IF self.surrogate_ids THEN <<"surrogateIds">> ELSE <<>>)
        fields_str == IF fields # <<>> THEN "?fields=" \o join(fields, ",") ELSE ""
    IN  set_url(self, URL_BASE \o "userprincipals" \o fields_str)

\* OrderGetterImpl::_build appending the order id as it is.
OrderGetterImpl_build_raw_order_id(self) ==
    set_url(self, URL_ACCOUNTS \o url_encode(self.account_id)
                  \o "/orders/" \o self.order_id)

OrderGetterImpl_build(self) ==
    set_url(self, URL_ACCOUNTS \o url_encode(self.account_id)
                  \o "/orders/" \o url_encode(self.order_id))

\* OrdersGetterImpl::_build without the status parameter.
OrdersGetterImpl_build_without_status(self) ==
    LET params == << <<"maxResults", to_string(self.nmax_results)>>,
                     <<"fromEnteredTime", self.from_entered_time>>,
                     <<"toEnteredTime", self.to_entered_time>> >>
        qstr == build_encoded_query_str(params)
    IN  set_url(self, URL_ACCOUNTS \o url_encode(self.account_id)
                      \o "/orders?" \o qstr)

OrdersGetterImpl_build(self) ==
    LET params == << <<"maxResults", to_string(self.nmax_results)>>,
                     <<"fromEnteredTime", self.from_entered_time>>,
                     <<"toEnteredTime", self.to_entered_time>>,
                     <<"status", to_string_OrderStatusType(self.order_status_type)>> >>
        qstr == build_encoded_query_str(params)
    IN  set_url(self, URL_ACCOUNTS \o url_encode(self.account_id)
                      \o "/orders?" \o qstr)

\* virtual build(): each class overrides it with a call of its own _build().
build(self) ==
    CASE self.kind = "AccountInfoGetterImpl" -> AccountInfoGetterImpl_build(self)
      [] self.kind = "PreferencesGetterImpl" -> PreferencesGetterImpl_build(self)
      [] self.kind = "StreamerSubscriptionKeysGetterImpl" ->
             StreamerSubscriptionKeysGetterImpl_build(self)
      [] self.kind = "TransactionHistoryGetterImpl" ->
             TransactionHistoryGetterImpl_build(self)
      [] self.kind = "IndividualTransactionHistoryGetterImpl" ->
             IndividualTransactionHistoryGetterImpl_build(self)
      [] self.kind = "UserPrincipalsGetterImpl" -> UserPrincipalsGetterImpl_build(self)
      [] self.kind = "OrderGetterImpl" -> OrderGetterImpl_build(self)
      [] self.kind = "OrdersGetterImpl" -> OrdersGetterImpl_build(self)

\* The base constructor without its emptiness test.
AccountGetterBaseImpl_unchecked(account_id) ==
    Return([account_id |-> account_id])

\* AccountGetterBaseImpl::AccountGetterBaseImpl: the base subobject.
AccountGetterBaseImpl(account_id) ==
    IF account_id = "" THEN Throw(NoObj)
    ELSE Return([account_id |-> account_id])

\* set_account_id without its closing build(): the id is replaced and the
\* URL is left as it was.
set_account_id_without_build(self, account_id) ==
    IF account_id = "" THEN Throw(self)
    ELSE Return([self EXCEPT !.account_id = account_id])

\* AccountGetterBaseImpl::set_account_id
set_account_id(self, account_id) ==
    IF account_id = "" THEN Throw(self)
    ELSE Return(build([self EXCEPT !.account_id = account_id]))

AccountInfoGetterImpl(account_id, positions, orders) ==
    LET base == AccountGetterBaseImpl(account_id)
    IN  IF base.thrown THEN Throw(NoObj)
        ELSE Return(AccountInfoGetterImpl_build(
                 [kind |-> "AccountInfoGetterImpl",
                  account_id |-> base.obj.account_id, url |-> "",
                              positions |-> positions, orders |-> orders]))

return_positions(self, positions) ==
    Return(build([self EXCEPT !.positions = positions]))

return_orders(self, orders) ==
    Return(build([self EXCEPT !.orders = orders]))

PreferencesGetterImpl(account_id) ==
    LET base == AccountGetterBaseImpl(account_id)
    IN  IF base.thrown THEN Throw(NoObj)
        ELSE Return(PreferencesGetterImpl_build(
                 [kind |-> "PreferencesGetterImpl",
                  account_id |-> base.obj.account_id, url |-> ""]))

StreamerSubscriptionKeysGetterImpl(account_id) ==
    LET base == AccountGetterBaseImpl(account_id)
    IN  IF base.thrown THEN Throw(NoObj)
        ELSE Return(StreamerSubscriptionKeysGetterImpl_build(
                 [kind |-> "StreamerSubscriptionKeysGetterImpl",
                  account_id |-> base.obj.account_id, url |-> ""]))

TransactionHistoryGetterImpl(account_id, transaction_type, symbol, start_date, end_date) ==
    LET base == AccountGetterBaseImpl(account_id)
    IN  IF base.thrown THEN Throw(NoObj)
        ELSE IF start_date # "" /\ ~is_valid_iso8601_datetime(start_date)
        THEN Throw(NoObj)
        ELSE IF end_date # "" /\ ~is_valid_iso8601_datetime(end_date)
        THEN Throw(NoObj)
        ELSE Return(TransactionHistoryGetterImpl_build(
                 [kind |-> "TransactionHistoryGetterImpl",
                  account_id |-> base.obj.account_id, url |-> "",
                              transaction_id |-> "",
                              transaction_type |-> transaction_type,
                              symbol |-> toupper(symbol),
                              start_date |-> start_date,
                              end_date |-> end_date]))

set_transaction_type(self, transaction_type) ==
    Return(build([self EXCEPT !.transaction_type = transaction_type]))

\* TransactionHistoryGetterImpl::get_symbol
get_symbol(self) == self.symbol

\* TransactionHistoryGetterImpl::set_symbol storing the symbol as given.
set_symbol_as_given(self, symbol) ==
    Return(build([self EXCEPT !.symbol = symbol]))

set_symbol(self, symbol) ==
    Return(build([self EXCEPT !.symbol = toupper(symbol)]))

\* set_start_date with the test of the OrderList times: the empty string is
\* rejected like any other string that is no ISO-8601 date.
set_start_date_required(self, start_date) ==
    IF ~is_valid_iso8601_datetime(start_date) THEN Throw(self)
    ELSE Return(build([self EXCEPT !.start_date = start_date]))

set_start_date(self, start_date) ==
    IF start_date # "" /\ ~is_valid_iso8601_datetime(start_date)
    THEN Throw(self)
    ELSE Return(build([self EXCEPT !.start_date = start_date]))

set_end_date(self, end_date) ==
    IF end_date # "" /\ ~is_valid_iso8601_datetime(end_date)
    THEN Throw(self)
    ELSE Return(build([self EXCEPT !.end_date = end_date]))

IndividualTransactionHistoryGetterImpl(account_id, transaction_id) ==
    LET base == AccountGetterBaseImpl(account_id)
    IN  IF base.thrown THEN Throw(NoObj)
        ELSE IF transaction_id = "" THEN Throw(NoObj)
        ELSE Return(IndividualTransactionHistoryGetterImpl_build(
                 [kind |-> "IndividualTransactionHistoryGetterImpl",
                  account_id |-> base.obj.account_id, url |-> "",
                              transaction_id |-> transaction_id]))

set_transaction_id(self, transaction_id) ==
    IF transaction_id = "" THEN Throw(self)
    ELSE Return(build([self EXCEPT !.transaction_id = transaction_id]))

UserPrincipalsGetterImpl(streamer_subscription_keys, streamer_connection_info, preferences, surrogate_ids) ==
    Return(UserPrincipalsGetterImpl_build(
        [kind |-> "UserPrincipalsGetterImpl",
         url |-> "",
         streamer_subscription_keys |-> streamer_subscription_keys,
         streamer_connection_info |-> streamer_connection_info,
         preferences |-> preferences,
         surrogate_ids |-> surrogate_ids]))

return_streamer_subscription_keys(self, streamer_subscription_keys) ==
    Return(build([self EXCEPT
                    !.streamer_subscription_keys = streamer_subscription_keys]))

return_streamer_connection_info(self, streamer_connection_info) ==
    Return(build([self EXCEPT
                    !.streamer_connection_info = streamer_connection_info]))

return_preferences(self, preferences) ==
    Return(build([self EXCEPT !.preferences = preferences]))

return_surrogate_ids(self, surrogate_ids) ==
    Return(build([self EXCEPT !.surrogate_ids = surrogate_ids]))

OrderGetterImpl(account_id, order_id) ==
    LET base == AccountGetterBaseImpl(account_id)
    IN  IF base.thrown THEN Throw(NoObj)
        ELSE IF order_id = "" THEN Throw(NoObj)
        ELSE Return(OrderGetterImpl_build(
                 [kind |-> "OrderGetterImpl",
                  account_id |-> base.obj.account_id, url |-> "", order_id |-> order_id]))

\* set_order_id without its emptiness test.
set_order_id_unchecked(self, order_id) ==
    Return(build([self EXCEPT !.order_id = order_id]))

set_order_id(self, order_id) ==
    IF order_id = "" THEN Throw(self)
    ELSE Return(build([self EXCEPT !.order_id = order_id]))

\* The OrdersGetterImpl constructor without the test of to_entered_time.
OrdersGetterImpl_to_unchecked(account_id, nmax_results, from_entered_time, to_entered_time, order_status_type) ==
    LET base == AccountGetterBaseImpl(account_id)
    IN  IF base.thrown THEN Throw(NoObj)
        ELSE IF LessThanOne(nmax_results) THEN Throw(NoObj)
        ELSE IF ~is_valid_iso8601_datetime(from_entered_time) THEN Throw(NoObj)
        ELSE Return(OrdersGetterImpl_build(
                 [kind |-> "OrdersGetterImpl",
                  account_id |-> base.obj.account_id, url |-> "",
                  nmax_results |-> nmax_results,
                  from_entered_time |-> from_entered_time,
                  to_entered_time |-> to_entered_time,
                  order_status_type |-> order_status_type]))

OrdersGetterImpl(account_id, nmax_results, from_entered_time, to_entered_time, order_status_type) ==
    LET base == AccountGetterBaseImpl(account_id)
    IN  IF base.thrown THEN Throw(NoObj)
        ELSE IF LessThanOne(nmax_results) THEN Throw(NoObj)
        ELSE IF ~is_valid_iso8601_datetime(from_entered_time) THEN Throw(NoObj)
        ELSE IF ~is_valid_iso8601_datetime(to_entered_time) THEN Throw(NoObj)
        ELSE Return(OrdersGetterImpl_build(
                 [kind |-> "OrdersGetterImpl",
                  account_id |-> base.obj.account_id, url |-> "",
                              nmax_results |-> nmax_results,
                              from_entered_time |-> from_entered_time,
                              to_entered_time |-> to_entered_time,
                              order_status_type |-> order_status_type]))

set_nmax_results(self, nmax_results) ==
    IF LessThanOne(nmax_results) THEN Throw(self)
    ELSE Return(build([self EXCEPT !.nmax_results = nmax_results]))

\* set_from_entered_time that commits the field before it validates.
set_from_entered_time_commit_first(self, from_entered_time) ==
    IF ~is_valid_iso8601_datetime(from_entered_time)
    THEN Throw([self EXCEPT !.from_entered_time = from_entered_time])
    ELSE Return(build([self EXCEPT !.from_entered_time = from_entered_time]))

set_from_entered_time(self, from_entered_time) ==
    IF ~is_valid_iso8601_datetime(from_entered_time) THEN Throw(self)
    ELSE Return(build([self EXCEPT !.from_entered_time = from_entered_time]))

\* set_to_entered_time with the test of the TransactionHistory dates: the
\* empty string is accepted.
set_to_entered_time_optional(self, to_entered_time) ==
    IF to_entered_time # "" /\ ~is_valid_iso8601_datetime(to_entered_time)
    THEN Throw(self)
    ELSE Return(build([self EXCEPT !.to_entered_time = to_entered_time]))

set_to_entered_time(self, to_entered_time) ==
    IF ~is_valid_iso8601_datetime(to_entered_time) THEN Throw(self)
    ELSE Return(build([self EXCEPT !.to_entered_time = to_entered_time]))

set_order_status_type(self, order_status_type) ==
    Return(build([self EXCEPT !.order_status_type = order_status_type]))

\* ---------------------------------------------------------------- C ABI

\* Error codes the ABI returns (0 is success).
TDMA_API_TYPE_ERROR == 5

TDMA_API_VALUE_ERROR == 6

TDMA_API_CRED_ERROR == 7

TDMA_API_NULL_POINTER == 10

\* A const char* argument: the null pointer, or a pointer to a string.
NULLPTR == [null |-> TRUE, str |-> ""]

Ptr(s) == [null |-> FALSE, str |-> s]

\* kill_proxy: the proxy holds no object and no type tag.
kill_proxy == [obj |-> NoObj, type_id |-> -1]

\* What an ABI call leaves: the proxy and the returned code.
Failed(err) == [proxy |-> kill_proxy, ret |-> err]

Created(obj, type_id) == [proxy |-> [obj |-> obj, type_id |-> type_id], ret |-> 0]

\* getter_is_creatable: the credentials must not be null.
getter_is_creatable(pcreds) ==
    IF pcreds = "NULL" THEN TDMA_API_NULL_POINTER ELSE 0

\* CallImplFromABI: an exception of the implementation becomes its code.
CallImplFromABI(r) == IF r.thrown THEN TDMA_API_VALUE_ERROR ELSE 0

AccountInfoGetter_Create_ABI(pcreds, account_id, positions, orders) ==
    IF getter_is_creatable(pcreds) # 0 THEN Failed(getter_is_creatable(pcreds))
    ELSE IF account_id.null THEN Failed(TDMA_API_NULL_POINTER)
    ELSE LET r == AccountInfoGetterImpl(account_id.str, positions # 0, orders # 0)
         IN  IF CallImplFromABI(r) # 0 THEN Failed(CallImplFromABI(r))
             ELSE Created(r.obj, TYPE_ID_GETTER_ACCOUNT_INFO)

PreferencesGetter_Create_ABI(pcreds, account_id) ==
    IF getter_is_creatable(pcreds) # 0 THEN Failed(getter_is_creatable(pcreds))
    ELSE IF account_id.null THEN Failed(TDMA_API_NULL_POINTER)
    ELSE LET r == PreferencesGetterImpl(account_id.str)
         IN  IF CallImplFromABI(r) # 0 THEN Failed(CallImplFromABI(r))
             ELSE Created(r.obj, TYPE_ID_GETTER_PREFERENCES)

StreamerSubscriptionKeysGetter_Create_ABI(pcreds, account_id) ==
    IF getter_is_creatable(pcreds) # 0 THEN Failed(getter_is_creatable(pcreds))
    ELSE IF account_id.null THEN Failed(TDMA_API_NULL_POINTER)
    ELSE LET r == StreamerSubscriptionKeysGetterImpl(account_id.str)
         IN  IF CallImplFromABI(r) # 0 THEN Failed(CallImplFromABI(r))
             ELSE Created(r.obj, TYPE_ID_GETTER_SUBSCRIPTION_KEYS)

TransactionHistoryGetter_Create_ABI(pcreds, account_id, transaction_type, symbol, start_date, end_date) ==
    IF getter_is_creatable(pcreds) # 0 THEN Failed(getter_is_creatable(pcreds))
    ELSE IF ~TransactionType_is_valid(transaction_type)
    THEN Failed(TDMA_API_VALUE_ERROR)
    ELSE IF account_id.null THEN Failed(TDMA_API_NULL_POINTER)
    ELSE LET r == TransactionHistoryGetterImpl(
                      account_id.str, transaction_type,
                      IF symbol.null THEN "" ELSE symbol.str,
                      IF start_date.null THEN "" ELSE start_date.str,
                      IF end_date.null THEN "" ELSE end_date.str)
         IN  IF CallImplFromABI(r) # 0 THEN Failed(CallImplFromABI(r))
             ELSE Created(r.obj, TYPE_ID_GETTER_TRANSACTION_HISTORY)

IndividualTransactionHistoryGetter_Create_ABI(pcreds, account_id, transaction_id) ==
    IF getter_is_creatable(pcreds) # 0 THEN Failed(getter_is_creatable(pcreds))
    ELSE IF account_id.null THEN Failed(TDMA_API_NULL_POINTER)
    ELSE IF transaction_id.null THEN Failed(TDMA_API_NULL_POINTER)
    ELSE LET r == IndividualTransactionHistoryGetterImpl(account_id.str,
                                                         transaction_id.str)
         IN  IF CallImplFromABI(r) # 0 THEN Failed(CallImplFromABI(r))
             ELSE Created(r.obj, TYPE_ID_GETTER_IND_TRANSACTION_HISTORY)

\* UserPrincipalsGetter_Create_ABI storing the type tag of another variant.
UserPrincipalsGetter_Create_ABI_other_tag(pcreds, streamer_subscription_keys, streamer_connection_info, preferences, surrogate_ids) ==
    IF getter_is_creatable(pcreds) # 0 THEN Failed(getter_is_creatable(pcreds))
    ELSE LET r == UserPrincipalsGetterImpl(
                      streamer_subscription_keys # 0,
                      streamer_connection_info # 0,
                      preferences # 0, surrogate_ids # 0)
         IN  IF CallImplFromABI(r) # 0 THEN Failed(CallImplFromABI(r))
             ELSE Created(r.obj, TYPE_ID_GETTER_ACCOUNT_INFO)

UserPrincipalsGetter_Create_ABI(pcreds, streamer_subscription_keys, streamer_connection_info, preferences, surrogate_ids) ==
    IF getter_is_creatable(pcreds) # 0 THEN Failed(getter_is_creatable(pcreds))
    ELSE LET r == UserPrincipalsGetterImpl(
                      streamer_subscription_keys # 0,
                      streamer_connection_info # 0,
                      preferences # 0, surrogate_ids # 0)
         IN  IF CallImplFromABI(r) # 0 THEN Failed(CallImplFromABI(r))
             ELSE Created(r.obj, TYPE_ID_GETTER_USER_PRINCIPALS)

\* OrderGetter_Create_ABI without its CHECK_PTR_KILL_PROXY of order_id.
OrderGetter_Create_ABI_order_id_unchecked(pcreds, account_id, order_id) ==
    IF getter_is_creatable(pcreds) # 0 THEN Failed(getter_is_creatable(pcreds))
    ELSE IF account_id.null THEN Failed(TDMA_API_NULL_POINTER)
    ELSE LET r == OrderGetterImpl(account_id.str, order_id.str)
         IN  IF CallImplFromABI(r) # 0 THEN Failed(CallImplFromABI(r))
             ELSE Created(r.obj, TYPE_ID_GETTER_ORDER)

OrderGetter_Create_ABI(pcreds, account_id, order_id) ==
    IF getter_is_creatable(pcreds) # 0 THEN Failed(getter_is_creatable(pcreds))
    ELSE IF account_id.null THEN Failed(TDMA_API_NULL_POINTER)
    ELSE IF order_id.null THEN Failed(TDMA_API_NULL_POINTER)
    ELSE LET r == OrderGetterImpl(account_id.str, order_id.str)
         IN  IF CallImplFromABI(r) # 0 THEN Failed(CallImplFromABI(r))
             ELSE Created(r.obj, TYPE_ID_GETTER_ORDER)

OrdersGetter_Create_ABI(pcreds, account_id, nmax_results, from_entered_time, to_entered_time, order_status_type) ==
    IF getter_is_creatable(pcreds) # 0 THEN Failed(getter_is_creatable(pcreds))
    ELSE IF account_id.null THEN Failed(TDMA_API_NULL_POINTER)
    ELSE IF from_entered_time.null THEN Failed(TDMA_API_NULL_POINTER)
    ELSE IF to_entered_time.null THEN Failed(TDMA_API_NULL_POINTER)
    ELSE IF ~OrderStatusType_is_valid(order_status_type)
    THEN Failed(TDMA_API_VALUE_ERROR)
    ELSE LET r == OrdersGetterImpl(account_id.str, nmax_results,
                                   from_entered_time.str, to_entered_time.str,
                                   order_status_type)
         IN  IF CallImplFromABI(r) # 0 THEN Failed(CallImplFromABI(r))
             ELSE Created(r.obj, TYPE_ID_GETTER_ORDERS)

\* proxy_is_callable: the proxy holds an object whose type tag lies in
\* [TYPE_ID_LOW, TYPE_ID_HIGH] of the implementation class asked for.
proxy_is_callable(p, TYPE_ID_LOW, TYPE_ID_HIGH) ==
    IF p.obj = NoObj THEN TDMA_API_NULL_POINTER
    ELSE IF p.type_id < TYPE_ID_LOW \/ p.type_id > TYPE_ID_HIGH
    THEN TDMA_API_TYPE_ERROR
    ELSE 0

\* What a call of a method through the proxy leaves.
Called(p, r) == [proxy |-> [p EXCEPT !.obj = r.obj], ret |-> CallImplFromABI(r)]

Refused(p, err) == [proxy |-> p, ret |-> err]

\* destroy_proxy<ImplTy>: deletes the object and kills the proxy.
destroy_proxy(p, TYPE_ID_LOW, TYPE_ID_HIGH) ==
    IF proxy_is_callable(p, TYPE_ID_LOW, TYPE_ID_HIGH) # 0
    THEN Refused(p, proxy_is_callable(p, TYPE_ID_LOW, TYPE_ID_HIGH))
    ELSE [proxy |-> kill_proxy, ret |-> 0]

\* AccountGetterBaseImpl::TYPE_ID_LOW / TYPE_ID_HIGH
AccountGetterBaseImpl_TYPE_ID_LOW == TYPE_ID_GETTER_ACCOUNT_INFO

AccountGetterBaseImpl_TYPE_ID_HIGH == TYPE_ID_GETTER_ORDERS

\* set_account_id run on an object that is no AccountGetterBaseImpl (the
\* proxy's void* is reinterpret_cast): the emptiness test reads only the
\* argument; the assignment to _account_id then writes over the object's
\* own members, which is undefined behaviour.  Of its outcomes, a crash ends
\* the behaviour; otherwise the flags hold any values and the virtual
\* build() rebuilds the URL from them.
set_account_id_reinterpreted(self, account_id) ==
    IF account_id = "" THEN {Throw(self)}
    ELSE {Return(build([self EXCEPT !.streamer_subscription_keys = f[1],
                                    !.streamer_connection_info = f[2],
                                    !.preferences = f[3],
                                    !.surrogate_ids = f[4]])) :
            f \in BOOLEAN \X BOOLEAN \X BOOLEAN \X BOOLEAN}

\* The outcomes of AccountGetterBase_SetAccountId_ABI (one, unless the
\* behaviour is undefined).
AccountGetterBase_SetAccountId_ABI(p, account_id) ==
    IF proxy_is_callable(p, AccountGetterBaseImpl_TYPE_ID_LOW,
                         AccountGetterBaseImpl_TYPE_ID_HIGH) # 0
    THEN {Refused(p, proxy_is_callable(p, AccountGetterBaseImpl_TYPE_ID_LOW,
                                       AccountGetterBaseImpl_TYPE_ID_HIGH))}
    ELSE IF account_id.null THEN {Refused(p, TDMA_API_NULL_POINTER)}
    ELSE IF p.obj.kind = "UserPrincipalsGetterImpl"
    THEN {Called(p, r) : r \in set_account_id_reinterpreted(p.obj, account_id.str)}
    ELSE {Called(p, set_account_id(p.obj, account_id.str))}

AccountInfoGetter_ReturnPositions_ABI(p, return_positions_arg) ==
    IF proxy_is_callable(p, TYPE_ID_GETTER_ACCOUNT_INFO, TYPE_ID_GETTER_ACCOUNT_INFO) # 0
    THEN Refused(p, proxy_is_callable(p, TYPE_ID_GETTER_ACCOUNT_INFO, TYPE_ID_GETTER_ACCOUNT_INFO))
    ELSE Called(p, return_positions(p.obj, return_positions_arg # 0))

AccountInfoGetter_ReturnOrders_ABI(p, return_orders_arg) ==
    IF proxy_is_callable(p, TYPE_ID_GETTER_ACCOUNT_INFO, TYPE_ID_GETTER_ACCOUNT_INFO) # 0
    THEN Refused(p, proxy_is_callable(p, TYPE_ID_GETTER_ACCOUNT_INFO, TYPE_ID_GETTER_ACCOUNT_INFO))
    ELSE Called(p, return_orders(p.obj, return_orders_arg # 0))

\* TransactionHistoryGetter_SetTransactionType_ABI without its CHECK_ENUM.
TransactionHistoryGetter_SetTransactionType_ABI_unchecked(p, transaction_type) ==
    IF proxy_is_callable(p, TYPE_ID_GETTER_TRANSACTION_HISTORY, TYPE_ID_GETTER_TRANSACTION_HISTORY) # 0
    THEN Refused(p, proxy_is_callable(p, TYPE_ID_GETTER_TRANSACTION_HISTORY, TYPE_ID_GETTER_TRANSACTION_HISTORY))
    ELSE Called(p, set_transaction_type(p.obj, transaction_type))

TransactionHistoryGetter_SetTransactionType_ABI(p, transaction_type) ==
    IF ~TransactionType_is_valid(transaction_type)
    THEN Refused(p, TDMA_API_VALUE_ERROR)
    ELSE IF proxy_is_callable(p, TYPE_ID_GETTER_TRANSACTION_HISTORY, TYPE_ID_GETTER_TRANSACTION_HISTORY) # 0
    THEN Refused(p, proxy_is_callable(p, TYPE_ID_GETTER_TRANSACTION_HISTORY, TYPE_ID_GETTER_TRANSACTION_HISTORY))
    ELSE Called(p, set_transaction_type(p.obj, transaction_type))

TransactionHistoryGetter_SetSymbol_ABI(p, symbol) ==
    IF proxy_is_callable(p, TYPE_ID_GETTER_TRANSACTION_HISTORY, TYPE_ID_GETTER_TRANSACTION_HISTORY) # 0
    THEN Refused(p, proxy_is_callable(p, TYPE_ID_GETTER_TRANSACTION_HISTORY, TYPE_ID_GETTER_TRANSACTION_HISTORY))
    ELSE IF symbol.null THEN Refused(p, TDMA_API_NULL_POINTER)
    ELSE Called(p, set_symbol(p.obj, symbol.str))

TransactionHistoryGetter_SetStartDate_ABI(p, start_date) ==
    IF proxy_is_callable(p, TYPE_ID_GETTER_TRANSACTION_HISTORY, TYPE_ID_GETTER_TRANSACTION_HISTORY) # 0
    THEN Refused(p, proxy_is_callable(p, TYPE_ID_GETTER_TRANSACTION_HISTORY, TYPE_ID_GETTER_TRANSACTION_HISTORY))
    ELSE IF start_date.null THEN Refused(p, TDMA_API_NULL_POINTER)
    ELSE Called(p, set_start_date(p.obj, start_date.str))

TransactionHistoryGetter_SetEndDate_ABI(p, end_date) ==
    IF proxy_is_callable(p, TYPE_ID_GETTER_TRANSACTION_HISTORY, TYPE_ID_GETTER_TRANSACTION_HISTORY) # 0
    THEN Refused(p, proxy_is_callable(p, TYPE_ID_GETTER_TRANSACTION_HISTORY, TYPE_ID_GETTER_TRANSACTION_HISTORY))
    ELSE IF end_date.null THEN Refused(p, TDMA_API_NULL_POINTER)
    ELSE Called(p, set_end_date(p.obj, end_date.str))

IndividualTransactionHistoryGetter_SetTransactionId_ABI(p, transaction_id) ==
    IF proxy_is_callable(p, TYPE_ID_GETTER_IND_TRANSACTION_HISTORY, TYPE_ID_GETTER_IND_TRANSACTION_HISTORY) # 0
    THEN Refused(p, proxy_is_callable(p, TYPE_ID_GETTER_IND_TRANSACTION_HISTORY, TYPE_ID_GETTER_IND_TRANSACTION_HISTORY))
    ELSE IF transaction_id.null THEN Refused(p, TDMA_API_NULL_POINTER)
    ELSE Called(p, set_transaction_id(p.obj, transaction_id.str))

UserPrincipalsGetter_ReturnSubscriptionKeys_ABI(p, flag) ==
    IF proxy_is_callable(p, TYPE_ID_GETTER_USER_PRINCIPALS, TYPE_ID_GETTER_USER_PRINCIPALS) # 0
    THEN Refused(p, proxy_is_callable(p, TYPE_ID_GETTER_USER_PRINCIPALS, TYPE_ID_GETTER_USER_PRINCIPALS))
    ELSE Called(p, return_streamer_subscription_keys(p.obj, flag # 0))

UserPrincipalsGetter_ReturnConnectionInfo_ABI(p, flag) ==
    IF proxy_is_callable(p, TYPE_ID_GETTER_USER_PRINCIPALS, TYPE_ID_GETTER_USER_PRINCIPALS) # 0
    THEN Refused(p, proxy_is_callable(p, TYPE_ID_GETTER_USER_PRINCIPALS, TYPE_ID_GETTER_USER_PRINCIPALS))
    ELSE Called(p, return_streamer_connection_info(p.obj, flag # 0))

UserPrincipalsGetter_ReturnPreferences_ABI(p, flag) ==
    IF proxy_is_callable(p, TYPE_ID_GETTER_USER_PRINCIPALS, TYPE_ID_GETTER_USER_PRINCIPALS) # 0
    THEN Refused(p, proxy_is_callable(p, TYPE_ID_GETTER_USER_PRINCIPALS, TYPE_ID_GETTER_USER_PRINCIPALS))
    ELSE Called(p, return_preferences(p.obj, flag # 0))

UserPrincipalsGetter_ReturnSurrogateIds_ABI(p, flag) ==
    IF proxy_is_callable(p, TYPE_ID_GETTER_USER_PRINCIPALS, TYPE_ID_GETTER_USER_PRINCIPALS) # 0
    THEN Refused(p, proxy_is_callable(p, TYPE_ID_GETTER_USER_PRINCIPALS, TYPE_ID_GETTER_USER_PRINCIPALS))
    ELSE Called(p, return_surrogate_ids(p.obj, flag # 0))

OrderGetter_SetOrderId_ABI(p, order_id) ==
    IF proxy_is_callable(p, TYPE_ID_GETTER_ORDER, TYPE_ID_GETTER_ORDER) # 0
    THEN Refused(p, proxy_is_callable(p, TYPE_ID_GETTER_ORDER, TYPE_ID_GETTER_ORDER))
    ELSE IF order_id.null THEN Refused(p, TDMA_API_NULL_POINTER)
    ELSE Called(p, set_order_id(p.obj, order_id.str))

OrdersGetter_SetNMaxResults_ABI(p, nmax_results) ==
    IF proxy_is_callable(p, TYPE_ID_GETTER_ORDERS, TYPE_ID_GETTER_ORDERS) # 0
    THEN Refused(p, proxy_is_callable(p, TYPE_ID_GETTER_ORDERS, TYPE_ID_GETTER_ORDERS))
    ELSE Called(p, set_nmax_results(p.obj, nmax_results))

OrdersGetter_SetFromEnteredTime_ABI(p, from_entered_time) ==
    IF proxy_is_callable(p, TYPE_ID_GETTER_ORDERS, TYPE_ID_GETTER_ORDERS) # 0
    THEN Refused(p, proxy_is_callable(p, TYPE_ID_GETTER_ORDERS, TYPE_ID_GETTER_ORDERS))
    ELSE IF from_entered_time.null THEN Refused(p, TDMA_API_NULL_POINTER)
    ELSE Called(p, set_from_entered_time(p.obj, from_entered_time.str))

OrdersGetter_SetToEnteredTime_ABI(p, to_entered_time) ==
    IF proxy_is_callable(p, TYPE_ID_GETTER_ORDERS, TYPE_ID_GETTER_ORDERS) # 0
    THEN Refused(p, proxy_is_callable(p, TYPE_ID_GETTER_ORDERS, TYPE_ID_GETTER_ORDERS))
    ELSE IF to_entered_time.null THEN Refused(p, TDMA_API_NULL_POINTER)
    ELSE Called(p, set_to_entered_time(p.obj, to_entered_time.str))

OrdersGetter_SetOrderStatusType_ABI(p, order_status_type) ==
    IF ~OrderStatusType_is_valid(order_status_type)
    THEN Refused(p, TDMA_API_VALUE_ERROR)
    ELSE IF proxy_is_callable(p, TYPE_ID_GETTER_ORDERS, TYPE_ID_GETTER_ORDERS) # 0
    THEN Refused(p, proxy_is_callable(p, TYPE_ID_GETTER_ORDERS, TYPE_ID_GETTER_ORDERS))
    ELSE Called(p, set_order_status_type(p.obj, order_status_type))

\* The per-field getters of the ABI: the function, the type tags the class
\* of its ImplAccessor::get accepts (TYPE_ID_LOW, TYPE_ID_HIGH), the member
\* its accessor returns, and whether the accessor returns a bool.
GetterABIs ==
    {<<"AccountGetterBase_GetAccountId_ABI", AccountGetterBaseImpl_TYPE_ID_LOW,
       AccountGetterBaseImpl_TYPE_ID_HIGH, "account_id", FALSE>>,
     <<"AccountInfoGetter_ReturnsPositions_ABI", TYPE_ID_GETTER_ACCOUNT_INFO,
       TYPE_ID_GETTER_ACCOUNT_INFO, "positions", TRUE>>,
     <<"AccountInfoGetter_ReturnsOrders_ABI", TYPE_ID_GETTER_ACCOUNT_INFO,
       TYPE_ID_GETTER_ACCOUNT_INFO, "orders", TRUE>>,
     <<"TransactionHistoryGetter_GetTransactionType_ABI",
       TYPE_ID_GETTER_TRANSACTION_HISTORY, TYPE_ID_GETTER_TRANSACTION_HISTORY,
       "transaction_type", FALSE>>,
     <<"TransactionHistoryGetter_GetSymbol_ABI",
       TYPE_ID_GETTER_TRANSACTION_HISTORY, TYPE_ID_GETTER_TRANSACTION_HISTORY,
       "symbol", FALSE>>,
     <<"TransactionHistoryGetter_GetStartDate_ABI",
       TYPE_ID_GETTER_TRANSACTION_HISTORY, TYPE_ID_GETTER_TRANSACTION_HISTORY,
       "start_date", FALSE>>,
     <<"TransactionHistoryGetter_GetEndDate_ABI",
       TYPE_ID_GETTER_TRANSACTION_HISTORY, TYPE_ID_GETTER_TRANSACTION_HISTORY,
       "end_date", FALSE>>,
     <<"IndividualTransactionHistoryGetter_GetTransactionId_ABI",
       TYPE_ID_GETTER_IND_TRANSACTION_HISTORY,
       TYPE_ID_GETTER_IND_TRANSACTION_HISTORY, "transaction_id", FALSE>>,
     <<"UserPrincipalsGetter_ReturnsSubscriptionKeys_ABI",
       TYPE_ID_GETTER_USER_PRINCIPALS, TYPE_ID_GETTER_USER_PRINCIPALS,
       "streamer_subscription_keys", TRUE>>,
     <<"UserPrincipalsGetter_ReturnsConnectionInfo_ABI",
       TYPE_ID_GETTER_USER_PRINCIPALS, TYPE_ID_GETTER_USER_PRINCIPALS,
       "streamer_connection_info", TRUE>>,
     <<"UserPrincipalsGetter_ReturnsPreferences_ABI",
       TYPE_ID_GETTER_USER_PRINCIPALS, TYPE_ID_GETTER_USER_PRINCIPALS,
       "preferences", TRUE>>,
     <<"UserPrincipalsGetter_ReturnsSurrogateIds_ABI",
       TYPE_ID_GETTER_USER_PRINCIPALS, TYPE_ID_GETTER_USER_PRINCIPALS,
       "surrogate_ids", TRUE>>,
     <<"OrderGetter_GetOrderId_ABI", TYPE_ID_GETTER_ORDER,
       TYPE_ID_GETTER_ORDER, "order_id", FALSE>>,
     <<"OrdersGetter_GetNMaxResults_ABI", TYPE_ID_GETTER_ORDERS,
       TYPE_ID_GETTER_ORDERS, "nmax_results", FALSE>>,
     <<"OrdersGetter_GetFromEnteredTime_ABI", TYPE_ID_GETTER_ORDERS,
       TYPE_ID_GETTER_ORDERS, "from_entered_time", FALSE>>,
     <<"OrdersGetter_GetToEnteredTime_ABI", TYPE_ID_GETTER_ORDERS,
       TYPE_ID_GETTER_ORDERS, "to_entered_time", FALSE>>,
     <<"OrdersGetter_GetOrderStatusType_ABI", TYPE_ID_GETTER_ORDERS,
       TYPE_ID_GETTER_ORDERS, "order_status_type", FALSE>>}

\* What get_account_id reads from an object that is no AccountGetterBaseImpl
\* (undefined behaviour): any string.
ReinterpretedStrings == {"", "a/1"}

\* ImplAccessor::get: the outcomes of the per-field getter g called through
\* the proxy p. The accessors are const members that return a member: the
\* proxy and its object are left as they are, and the value goes to the
\* caller's buffer (a bool as 0 or 1).
ImplAccessor_get(p, g) ==
    IF proxy_is_callable(p, g[2], g[3]) # 0
    THEN {[proxy |-> p, ret |-> proxy_is_callable(p, g[2], g[3]),
           out |-> "untouched"]}
    ELSE IF g[4] \notin DOMAIN p.obj
    THEN {[proxy |-> p, ret |-> 0, out |-> v] : v \in ReinterpretedStrings}
    ELSE IF g[5]
    THEN {[proxy |-> p, ret |-> 0, out |-> IF p.obj[g[4]] THEN 1 ELSE 0]}
    ELSE {[proxy |-> p, ret |-> 0, out |-> p.obj[g[4]]]}

\* ------------------------------------------------------------ the caller

\* What a caller passes.
Creds == {"NULL", "creds"}

IntBools == {0, 1}

AccountIdArgs == {NULLPTR, Ptr(""), Ptr("a/1"), Ptr("B2")}

IdArgs == {NULLPTR, Ptr(""), Ptr("7"), Ptr("x?y")}

SymbolArgs == {NULLPTR, Ptr(""), Ptr("aapl"), Ptr("SPY")}

DateArgs == {NULLPTR, Ptr(""), Ptr("2020-13-01"), Ptr("2020-01-01"),
             Ptr("2020-02-01T10:30:00")}

\* Signed ints a caller passes for the unsigned nmax_results.
NMaxArgs == {-1, 0} \cup 1..MaxNMax

TransactionTypeArgs ==
    {-1, Len(TransactionTypeNames)} \cup 0..MaxEnumArg

OrderStatusTypeArgs ==
    {-1, Len(OrderStatusTypeNames)} \cup 0..MaxEnumArg

\* The smaller sets the create calls draw from.
CreateAccountIdArgs == {NULLPTR, Ptr(""), Ptr("a/1")}

CreateIdArgs == {NULLPTR, Ptr(""), Ptr("7")}

CreateSymbolArgs == {NULLPTR, Ptr("aapl")}

CreateDateArgs == {NULLPTR, Ptr(""), Ptr("2020-13-01"), Ptr("2020-01-01")}

CreateNMaxArgs == {-1, 0, 1}

CreateTransactionTypeArgs == {-1, 0, Len(TransactionTypeNames)}

CreateOrderStatusTypeArgs == {-1, 0, Len(OrderStatusTypeNames)}

TypeIds == {TYPE_ID_GETTER_ACCOUNT_INFO, TYPE_ID_GETTER_PREFERENCES,
            TYPE_ID_GETTER_SUBSCRIPTION_KEYS,
            TYPE_ID_GETTER_TRANSACTION_HISTORY,
            TYPE_ID_GETTER_IND_TRANSACTION_HISTORY,
            TYPE_ID_GETTER_USER_PRINCIPALS, TYPE_ID_GETTER_ORDER,
            TYPE_ID_GETTER_ORDERS}

\* ------------------------------------------------------------------ state

VARIABLES
    proxy,   \* the caller's Getter_C: [obj, type_id]
    last,    \* the last call: [op, args, ret]
    pre,     \* the proxy as it was before the last call of a setter
    threads  \* of each thread that calls setters of the getter, where it
             \* is: [url, op, args, pc, overlapped]

vars == <<proxy, last, pre, threads>>

Init ==
    /\ proxy = [obj |-> NoObj, type_id |-> 0]
    /\ last = [op |-> "none", args |-> [none |-> TRUE], ret |-> 0]
    /\ pre = [obj |-> NoObj, type_id |-> 0]
    /\ threads = <<>>

\* The state a create or destroy call op(args) that leaves r leads to.
Creates(op, args, r) ==
    <<r.proxy, [op |-> op, args |-> args, ret |-> r.ret],
      [obj |-> NoObj, type_id |-> 0]>>

\* The state a setter call op(args) on proxy p that leaves r leads to.
Sets(op, args, r, p) ==
    <<r.proxy, [op |-> op, args |-> args, ret |-> r.ret], p>>

Call_AccountInfoGetter_Create_ABI ==
    \E pcreds \in Creds, account_id \in CreateAccountIdArgs,
       positions \in IntBools, orders \in IntBools :
        \E s \in {Creates("AccountInfoGetter_Create_ABI",
                [pcreds |-> pcreds, account_id |-> account_id,
                 positions |-> positions, orders |-> orders],
                AccountInfoGetter_Create_ABI(pcreds, account_id, positions, orders))} :
            proxy' = s[1] /\ last' = s[2] /\ pre' = s[3]
            /\ UNCHANGED threads

Call_PreferencesGetter_Create_ABI ==
    \E pcreds \in Creds, account_id \in CreateAccountIdArgs :
        \E s \in {Creates("PreferencesGetter_Create_ABI",
                [pcreds |-> pcreds, account_id |-> account_id],
                PreferencesGetter_Create_ABI(pcreds, account_id))} :
            proxy' = s[1] /\ last' = s[2] /\ pre' = s[3]
            /\ UNCHANGED threads

Call_StreamerSubscriptionKeysGetter_Create_ABI ==
    \E pcreds \in Creds, account_id \in CreateAccountIdArgs :
        \E s \in {Creates("StreamerSubscriptionKeysGetter_Create_ABI",
                [pcreds |-> pcreds, account_id |-> account_id],
                StreamerSubscriptionKeysGetter_Create_ABI(pcreds, account_id))} :
            proxy' = s[1] /\ last' = s[2] /\ pre' = s[3]
            /\ UNCHANGED threads

Call_TransactionHistoryGetter_Create_ABI ==
    \E pcreds \in Creds, account_id \in CreateAccountIdArgs,
       transaction_type \in CreateTransactionTypeArgs,
       symbol \in CreateSymbolArgs,
       start_date \in CreateDateArgs, end_date \in CreateDateArgs :
        \E s \in {Creates("TransactionHistoryGetter_Create_ABI",
                [pcreds |-> pcreds, account_id |-> account_id,
                 transaction_type |-> transaction_type, symbol |-> symbol,
                 start_date |-> start_date, end_date |-> end_date],
                TransactionHistoryGetter_Create_ABI(
                    pcreds, account_id, transaction_type, symbol,
                    start_date, end_date))} :
            proxy' = s[1] /\ last' = s[2] /\ pre' = s[3]
            /\ UNCHANGED threads

Call_IndividualTransactionHistoryGetter_Create_ABI ==
    \E pcreds \in Creds, account_id \in CreateAccountIdArgs,
       transaction_id \in CreateIdArgs :
        \E s \in {Creates("IndividualTransactionHistoryGetter_Create_ABI",
                [pcreds |-> pcreds, account_id |-> account_id,
                 transaction_id |-> transaction_id],
                IndividualTransactionHistoryGetter_Create_ABI(
                    pcreds, account_id, transaction_id))} :
            proxy' = s[1] /\ last' = s[2] /\ pre' = s[3]
            /\ UNCHANGED threads

Call_UserPrincipalsGetter_Create_ABI ==
    \E pcreds \in Creds, k \in IntBools, i \in IntBools,
       pr \in IntBools, si \in IntBools :
        \E s \in {Creates("UserPrincipalsGetter_Create_ABI",
                [pcreds |-> pcreds, streamer_subscription_keys |-> k,
                 streamer_connection_info |-> i, preferences |-> pr,
                 surrogate_ids |-> si],
                UserPrincipalsGetter_Create_ABI(pcreds, k, i, pr, si))} :
            proxy' = s[1] /\ last' = s[2] /\ pre' = s[3]
            /\ UNCHANGED threads

Call_OrderGetter_Create_ABI ==
    \E pcreds \in Creds, account_id \in CreateAccountIdArgs,
       order_id \in CreateIdArgs :
        \E s \in {Creates("OrderGetter_Create_ABI",
                [pcreds |-> pcreds, account_id |-> account_id,
                 order_id |-> order_id],
                OrderGetter_Create_ABI(pcreds, account_id, order_id))} :
            proxy' = s[1] /\ last' = s[2] /\ pre' = s[3]
            /\ UNCHANGED threads

Call_OrdersGetter_Create_ABI ==
    \E pcreds \in Creds, account_id \in CreateAccountIdArgs,
       nmax_results \in CreateNMaxArgs,
       from_entered_time \in CreateDateArgs,
       to_entered_time \in CreateDateArgs,
       order_status_type \in CreateOrderStatusTypeArgs :
        \E s \in {Creates("OrdersGetter_Create_ABI",
                [pcreds |-> pcreds, account_id |-> account_id,
                 nmax_results |-> nmax_results,
                 from_entered_time |-> from_entered_time,
                 to_entered_time |-> to_entered_time,
                 order_status_type |-> order_status_type],
                OrdersGetter_Create_ABI(
                    pcreds, account_id, ToUnsigned(nmax_results),
                    from_entered_time, to_entered_time, order_status_type))} :
            proxy' = s[1] /\ last' = s[2] /\ pre' = s[3]
            /\ UNCHANGED threads

\* The eight ..._Destroy_ABI functions: destroy_proxy of the class whose
\* type tag is type_id.
Call_Destroy_ABI ==
    \E type_id \in TypeIds :
        \E s \in {Creates("Destroy_ABI", [type_id |-> type_id],
                destroy_proxy(proxy, type_id, type_id))} :
            proxy' = s[1] /\ last' = s[2] /\ pre' = s[3]
            /\ UNCHANGED threads

Call_AccountGetterBase_SetAccountId_ABI ==
    \E account_id \in AccountIdArgs :
        \E r \in AccountGetterBase_SetAccountId_ABI(proxy, account_id) :
            \E s \in {Sets("AccountGetterBase_SetAccountId_ABI",
                         [account_id |-> account_id], r, proxy)} :
            proxy' = s[1] /\ last' = s[2] /\ pre' = s[3]
            /\ UNCHANGED threads

Call_AccountInfoGetter_ReturnPositions_ABI ==
    \E b \in IntBools :
        \E s \in {Sets("AccountInfoGetter_ReturnPositions_ABI", [return_positions |-> b],
             AccountInfoGetter_ReturnPositions_ABI(proxy, b), proxy)} :
            proxy' = s[1] /\ last' = s[2] /\ pre' = s[3]
            /\ UNCHANGED threads

Call_AccountInfoGetter_ReturnOrders_ABI ==
    \E b \in IntBools :
        \E s \in {Sets("AccountInfoGetter_ReturnOrders_ABI", [return_orders |-> b],
             AccountInfoGetter_ReturnOrders_ABI(proxy, b), proxy)} :
            proxy' = s[1] /\ last' = s[2] /\ pre' = s[3]
            /\ UNCHANGED threads

Call_TransactionHistoryGetter_SetTransactionType_ABI ==
    \E transaction_type \in TransactionTypeArgs :
        \E s \in {Sets("TransactionHistoryGetter_SetTransactionType_ABI",
             [transaction_type |-> transaction_type],
             TransactionHistoryGetter_SetTransactionType_ABI(proxy, transaction_type), proxy)} :
            proxy' = s[1] /\ last' = s[2] /\ pre' = s[3]
            /\ UNCHANGED threads

Call_TransactionHistoryGetter_SetSymbol_ABI ==
    \E symbol \in SymbolArgs :
        \E s \in {Sets("TransactionHistoryGetter_SetSymbol_ABI", [symbol |-> symbol],
             TransactionHistoryGetter_SetSymbol_ABI(proxy, symbol), proxy)} :
            proxy' = s[1] /\ last' = s[2] /\ pre' = s[3]
            /\ UNCHANGED threads

Call_TransactionHistoryGetter_SetStartDate_ABI ==
    \E start_date \in DateArgs :
        \E s \in {Sets("TransactionHistoryGetter_SetStartDate_ABI",
             [start_date |-> start_date],
             TransactionHistoryGetter_SetStartDate_ABI(proxy, start_date), proxy)} :
            proxy' = s[1] /\ last' = s[2] /\ pre' = s[3]
            /\ UNCHANGED threads

Call_TransactionHistoryGetter_SetEndDate_ABI ==
    \E end_date \in DateArgs :
        \E s \in {Sets("TransactionHistoryGetter_SetEndDate_ABI", [end_date |-> end_date],
             TransactionHistoryGetter_SetEndDate_ABI(proxy, end_date), proxy)} :
            proxy' = s[1] /\ last' = s[2] /\ pre' = s[3]
            /\ UNCHANGED threads

Call_IndividualTransactionHistoryGetter_SetTransactionId_ABI ==
    \E transaction_id \in IdArgs :
        \E s \in {Sets("IndividualTransactionHistoryGetter_SetTransactionId_ABI",
             [transaction_id |-> transaction_id],
             IndividualTransactionHistoryGetter_SetTransactionId_ABI(proxy, transaction_id), proxy)} :
            proxy' = s[1] /\ last' = s[2] /\ pre' = s[3]
            /\ UNCHANGED threads

Call_UserPrincipalsGetter_ReturnSubscriptionKeys_ABI ==
    \E b \in IntBools :
        \E s \in {Sets("UserPrincipalsGetter_ReturnSubscriptionKeys_ABI",
             [return_subscription_keys |-> b],
             UserPrincipalsGetter_ReturnSubscriptionKeys_ABI(proxy, b), proxy)} :
            proxy' = s[1] /\ last' = s[2] /\ pre' = s[3]
            /\ UNCHANGED threads

Call_UserPrincipalsGetter_ReturnConnectionInfo_ABI ==
    \E b \in IntBools :
        \E s \in {Sets("UserPrincipalsGetter_ReturnConnectionInfo_ABI",
             [return_connection_info |-> b],
             UserPrincipalsGetter_ReturnConnectionInfo_ABI(proxy, b), proxy)} :
            proxy' = s[1] /\ last' = s[2] /\ pre' = s[3]
            /\ UNCHANGED threads

Call_UserPrincipalsGetter_ReturnPreferences_ABI ==
    \E b \in IntBools :
        \E s \in {Sets("UserPrincipalsGetter_ReturnPreferences_ABI",
             [return_preferences |-> b],
             UserPrincipalsGetter_ReturnPreferences_ABI(proxy, b), proxy)} :
            proxy' = s[1] /\ last' = s[2] /\ pre' = s[3]
            /\ UNCHANGED threads

Call_UserPrincipalsGetter_ReturnSurrogateIds_ABI ==
    \E b \in IntBools :
        \E s \in {Sets("UserPrincipalsGetter_ReturnSurrogateIds_ABI",
             [return_surrogate_ids |-> b],
             UserPrincipalsGetter_ReturnSurrogateIds_ABI(proxy, b), proxy)} :
            proxy' = s[1] /\ last' = s[2] /\ pre' = s[3]
            /\ UNCHANGED threads

Call_OrderGetter_SetOrderId_ABI ==
    \E order_id \in IdArgs :
        \E s \in {Sets("OrderGetter_SetOrderId_ABI", [order_id |-> order_id],
             OrderGetter_SetOrderId_ABI(proxy, order_id), proxy)} :
            proxy' = s[1] /\ last' = s[2] /\ pre' = s[3]
            /\ UNCHANGED threads

Call_OrdersGetter_SetNMaxResults_ABI ==
    \E nmax_results \in NMaxArgs :
        \E s \in {Sets("OrdersGetter_SetNMaxResults_ABI", [nmax_results |-> nmax_results],
             OrdersGetter_SetNMaxResults_ABI(proxy, ToUnsigned(nmax_results)), proxy)} :
            proxy' = s[1] /\ last' = s[2] /\ pre' = s[3]
            /\ UNCHANGED threads

Call_OrdersGetter_SetFromEnteredTime_ABI ==
    \E from_entered_time \in DateArgs :
        \E s \in {Sets("OrdersGetter_SetFromEnteredTime_ABI",
             [from_entered_time |-> from_entered_time],
             OrdersGetter_SetFromEnteredTime_ABI(proxy, from_entered_time), proxy)} :
            proxy' = s[1] /\ last' = s[2] /\ pre' = s[3]
            /\ UNCHANGED threads

Call_OrdersGetter_SetToEnteredTime_ABI ==
    \E to_entered_time \in DateArgs :
        \E s \in {Sets("OrdersGetter_SetToEnteredTime_ABI",
             [to_entered_time |-> to_entered_time],
             OrdersGetter_SetToEnteredTime_ABI(proxy, to_entered_time), proxy)} :
            proxy' = s[1] /\ last' = s[2] /\ pre' = s[3]
            /\ UNCHANGED threads

Call_OrdersGetter_SetOrderStatusType_ABI ==
    \E order_status_type \in OrderStatusTypeArgs :
        \E s \in {Sets("OrdersGetter_SetOrderStatusType_ABI",
             [order_status_type |-> order_status_type],
             OrdersGetter_SetOrderStatusType_ABI(proxy, order_status_type), proxy)} :
            proxy' = s[1] /\ last' = s[2] /\ pre' = s[3]
            /\ UNCHANGED threads

\* A call of one of the per-field getters of the ABI.
Call_Get_ABI ==
    \E g \in GetterABIs :
        \E r \in ImplAccessor_get(proxy, g) :
            /\ proxy' = r.proxy
            /\ last' = [op |-> g[1], args |-> [none |-> TRUE], ret |-> r.ret,
                        out |-> r.out]
            /\ pre' = proxy
            /\ UNCHANGED threads

Next ==
    \/ Call_AccountInfoGetter_Create_ABI
    \/ Call_PreferencesGetter_Create_ABI
    \/ Call_StreamerSubscriptionKeysGetter_Create_ABI
    \/ Call_TransactionHistoryGetter_Create_ABI
    \/ Call_IndividualTransactionHistoryGetter_Create_ABI
    \/ Call_UserPrincipalsGetter_Create_ABI
    \/ Call_OrderGetter_Create_ABI
    \/ Call_OrdersGetter_Create_ABI
    \/ Call_Destroy_ABI
    \/ Call_AccountGetterBase_SetAccountId_ABI
    \/ Call_AccountInfoGetter_ReturnPositions_ABI
    \/ Call_AccountInfoGetter_ReturnOrders_ABI
    \/ Call_TransactionHistoryGetter_SetTransactionType_ABI
    \/ Call_TransactionHistoryGetter_SetSymbol_ABI
    \/ Call_TransactionHistoryGetter_SetStartDate_ABI
    \/ Call_TransactionHistoryGetter_SetEndDate_ABI
    \/ Call_IndividualTransactionHistoryGetter_SetTransactionId_ABI
    \/ Call_UserPrincipalsGetter_ReturnSubscriptionKeys_ABI
    \/ Call_UserPrincipalsGetter_ReturnConnectionInfo_ABI
    \/ Call_UserPrincipalsGetter_ReturnPreferences_ABI
    \/ Call_UserPrincipalsGetter_ReturnSurrogateIds_ABI
    \/ Call_OrderGetter_SetOrderId_ABI
    \/ Call_OrdersGetter_SetNMaxResults_ABI
    \/ Call_OrdersGetter_SetFromEnteredTime_ABI
    \/ Call_OrdersGetter_SetToEnteredTime_ABI
    \/ Call_OrdersGetter_SetOrderStatusType_ABI
    \/ Call_Get_ABI

Spec == Init /\ [][Next]_vars

\* -------------------------------------------------------- the query encoder

\* The keys and the values of the pairs a caller hands to
\* util::build_encoded_query_str.
PairKeys == {"k", "a b"}

PairValues == {"", "v", "x&y"}

\* The lists of at most MaxPairs pairs.
ParamLists ==
    UNION {[1..n -> PairKeys \X PairValues] : n \in 0..MaxPairs}

\* A call of util::build_encoded_query_str(params), as the _build functions
\* of the TransactionHistory and OrderList getters make it.
Apply_build_encoded_query_str ==
    \E p \in ParamLists :
        /\ last' = [op |-> "build_encoded_query_str", args |-> [params |-> p],
                    ret |-> build_encoded_query_str(p)]
        /\ UNCHANGED <<proxy, pre, threads>>

NextQuery == Apply_build_encoded_query_str

SpecQuery == Init /\ [][NextQuery]_vars

\* ------------------------------------------------- two threads, one getter

\* The threads that call setters of one OrderList getter, without a lock.
Threads == {1, 2}

\* The setters they call.
ThreadSetters ==
    {"set_account_id", "set_nmax_results", "set_from_entered_time",
     "set_to_entered_time", "set_order_status_type"}

\* The arguments they pass to each.
ThreadArgs(op) ==
    CASE op = "set_account_id" -> {"", "B2"}
      [] op = "set_nmax_results" -> {ToUnsigned(0), ToUnsigned(2)}
      [] op = "set_from_entered_time" -> {"2020-13-01", "2020-02-01T10:30:00"}
      [] op = "set_to_entered_time" -> {"2020-02-01T10:30:00"}
      [] op = "set_order_status_type" -> {1}

\* The setter op of the getter self, called with the argument v by a single
\* caller.
Setter(op, self, v) ==
    CASE op = "set_account_id" -> set_account_id(self, v)
      [] op = "set_nmax_results" -> set_nmax_results(self, v)
      [] op = "set_from_entered_time" -> set_from_entered_time(self, v)
      [] op = "set_to_entered_time" -> set_to_entered_time(self, v)
      [] op = "set_order_status_type" -> set_order_status_type(self, v)

\* The getter exists: OrdersGetter_Create_ABI has made it, and no thread
\* has called anything yet.
InitThreads ==
    /\ \E s \in {Creates("OrdersGetter_Create_ABI",
                  [pcreds |-> "creds", account_id |-> Ptr("a/1"),
                   nmax_results |-> 1,
                   from_entered_time |-> Ptr("2020-01-01"),
                   to_entered_time |-> Ptr("2020-01-01"),
                   order_status_type |-> 0],
                  OrdersGetter_Create_ABI("creds", Ptr("a/1"), ToUnsigned(1),
                      Ptr("2020-01-01"), Ptr("2020-01-01"), 0))} :
           proxy = s[1] /\ last = s[2] /\ pre = s[3]
    /\ threads = [t \in Threads |->
                      [url |-> "", op |-> "none", args |-> "", pc |-> "idle",
                       overlapped |-> FALSE]]

\* Thread t calls a setter. The setter tests its argument first and throws
\* without touching the getter; otherwise its assignment is next.
Thread_enter(t) ==
    /\ threads[t].pc = "idle"
    /\ \E op \in ThreadSetters :
           \E v \in ThreadArgs(op) :
               threads' = [threads EXCEPT ![t] =
                   [url |-> "", op |-> op, args |-> v,
                    pc |-> IF Setter(op, proxy.obj, v).thrown
                           THEN "returned" ELSE "assign",
                    overlapped |->
                        \E u \in Threads \ {t} :
                            threads[u].pc \in {"assign", "build", "set_url"}]]
    /\ UNCHANGED <<proxy, last, pre>>

\* The setter's assignment to its field: the URL is not touched yet.
Thread_assign(t) ==
    /\ threads[t].pc = "assign"
    /\ proxy' = [proxy EXCEPT !.obj =
                     set_url(Setter(threads[t].op, proxy.obj,
                                    threads[t].args).obj,
                             proxy.obj.url)]
    /\ threads' = [threads EXCEPT ![t].pc = "build"]
    /\ UNCHANGED <<last, pre>>

\* build() to _build(): the fields are read and the URL is put together in
\* the local string url.
Thread_build(t) ==
    /\ threads[t].pc = "build"
    /\ threads' = [threads EXCEPT ![t].url = build(proxy.obj).url,
                                  ![t].pc = "set_url"]
    /\ UNCHANGED <<proxy, last, pre>>

\* The setter returning after _build() without the call of set_url.
Thread_return_without_set_url(t) ==
    /\ threads[t].pc = "set_url"
    /\ threads' = [threads EXCEPT ![t].pc = "returned"]
    /\ UNCHANGED <<proxy, last, pre>>

\* APIGetterImpl::set_url(url) stores the local string, and the setter
\* returns.
Thread_set_url(t) ==
    /\ threads[t].pc = "set_url"
    /\ proxy' = [proxy EXCEPT !.obj = set_url(proxy.obj, threads[t].url)]
    /\ threads' = [threads EXCEPT ![t].pc = "returned"]
    /\ UNCHANGED <<last, pre>>

NextThreads ==
    \E t \in Threads :
        \/ Thread_enter(t)
        \/ Thread_assign(t)
        \/ Thread_build(t)
        \/ Thread_set_url(t)

SpecThreads == InitThreads /\ [][NextThreads]_vars

\* ------------------------------------------------- reading states and URLs

Live == proxy.obj # NoObj

Kind == proxy.obj.kind

CreateOps ==
    {"AccountInfoGetter_Create_ABI", "PreferencesGetter_Create_ABI",
     "StreamerSubscriptionKeysGetter_Create_ABI",
     "TransactionHistoryGetter_Create_ABI",
     "IndividualTransactionHistoryGetter_Create_ABI",
     "UserPrincipalsGetter_Create_ABI", "OrderGetter_Create_ABI",
     "OrdersGetter_Create_ABI"}

\* The create calls of the account-scoped getters.
AccountCreateOps == CreateOps \ {"UserPrincipalsGetter_Create_ABI"}

AccountKinds ==
    {"AccountInfoGetterImpl", "PreferencesGetterImpl",
     "StreamerSubscriptionKeysGetterImpl", "TransactionHistoryGetterImpl",
     "IndividualTransactionHistoryGetterImpl", "OrderGetterImpl",
     "OrdersGetterImpl"}

\* The per-field getters of the ABI, by name.
GetOps == {g[1] : g \in GetterABIs}

\* The last call was a setter (every call that is no create, no destroy and
\* no per-field getter).
LastIsSetter ==
    last.op \notin CreateOps \cup GetOps \cup {"Destroy_ABI", "none"}

\* The error codes the specification calls InvalidArgument.
InvalidArgument ==
    {TDMA_API_VALUE_ERROR, TDMA_API_NULL_POINTER, TDMA_API_CRED_ERROR}

\* The first place at or after i where character c stands in s, or 0.
RECURSIVE Find(_, _, _)
Find(s, c, i) ==
    IF i > Len(s) THEN 0
    ELSE IF CharAt(s, i) = c THEN i
    ELSE Find(s, c, i + 1)

\* The pieces of s between the occurrences of character c.
RECURSIVE Split(_, _)
Split(s, c) ==
    IF Find(s, c, 1) = 0 THEN <<s>>
    ELSE <<SubSeq(s, 1, Find(s, c, 1) - 1)>>
         \o Split(SubSeq(s, Find(s, c, 1) + 1, Len(s)), c)

StartsWith(s, prefix) ==
    Len(s) >= Len(prefix) /\ SubSeq(s, 1, Len(prefix)) = prefix

\* What follows the prefix in s.
Rest(s, prefix) == SubSeq(s, Len(prefix) + 1, Len(s))

\* The keys of a query string k1=v1&k2=v2..., in their order.
QueryKeys(q) ==
    IF q = "" THEN <<>>
    ELSE [i \in 1..Len(Split(q, "&")) |-> Split(Split(q, "&")[i], "=")[1]]

\* The query of a URL: what follows its first ?, "" without one.
QueryOf(url) ==
    IF Find(url, "?", 1) = 0 THEN ""
    ELSE SubSeq(url, Find(url, "?", 1) + 1, Len(url))

\* The members of seq for which keep holds, in their order.
RECURSIVE Select(_, _)
Select(seq, keep) ==
    IF seq = <<>> THEN <<>>
    ELSE (IF keep[1] THEN <<seq[1]>> ELSE <<>>)
         \o Select(Tail(seq), Tail(keep))

\* The URL the build rule of the variant (the table of the URL-building
\* rules) derives from the fields of o.
AccountPath(o) == URL_ACCOUNTS \o url_encode(o.account_id)

WithQuery(path, q) == IF q = "" THEN path ELSE path \o "?" \o q

FieldsParam(names) ==
    IF names = <<>> THEN "" ELSE "fields=" \o join(names, ",")

RuleUrl(o) ==
    CASE o.kind = "AccountInfoGetterImpl" ->
            WithQuery(AccountPath(o),
                      FieldsParam(Select(<<"positions", "orders">>,
                                         <<o.positions, o.orders>>)))
      [] o.kind = "PreferencesGetterImpl" -> AccountPath(o) \o "/preferences"
      [] o.kind = "StreamerSubscriptionKeysGetterImpl" ->
            WithQuery(URL_BASE \o "userprincipals/streamersubscriptionkeys",
                      build_encoded_query_str(<< <<"accountIds", o.account_id>> >>))
      [] o.kind = "TransactionHistoryGetterImpl" ->
            WithQuery(AccountPath(o) \o "/transactions",
                      build_encoded_query_str(
                          << <<"type", to_string_TransactionType(o.transaction_type)>>,
                             <<"symbol", o.symbol>>,
                             <<"startDate", o.start_date>>,
                             <<"endDate", o.end_date>> >>))
      [] o.kind = "IndividualTransactionHistoryGetterImpl" ->
            AccountPath(o) \o "/transactions/" \o url_encode(o.transaction_id)
      [] o.kind = "UserPrincipalsGetterImpl" ->
            WithQuery(URL_BASE \o "userprincipals",
                      FieldsParam(Select(
                          <<"streamerSubscriptionKeys", "streamerConnectionInfo",
                            "preferences", "surrogateIds">>,
                          <<o.streamer_subscription_keys,
                            o.streamer_connection_info,
                            o.preferences, o.surrogate_ids>>)))
      [] o.kind = "OrderGetterImpl" ->
            AccountPath(o) \o "/orders/" \o url_encode(o.order_id)
      [] o.kind = "OrdersGetterImpl" ->
            WithQuery(AccountPath(o) \o "/orders",
                      build_encoded_query_str(
                          << <<"maxResults", to_string(o.nmax_results)>>,
                             <<"fromEnteredTime", o.from_entered_time>>,
                             <<"toEnteredTime", o.to_entered_time>>,
                             <<"status", to_string_OrderStatusType(o.order_status_type)>> >>))

\* ----------------------------------------------------------------- claims

\* C1: in every state, the built_url a live getter stores is the URL the
\* build rule of its variant derives from its current field values; no
\* constructor or setter call, accepted or rejected, leaves an older URL.
C1_UrlIsCurrent == Live => proxy.obj.url = RuleUrl(proxy.obj)

\* C1 is witnessed where set_account_id, called through the account-scoped
\* base on an OrderList getter, has replaced the account id and the URL.
C1_Witness ==
    /\ Live
    /\ Kind = "OrdersGetterImpl"
    /\ last.op = "AccountGetterBase_SetAccountId_ABI"
    /\ last.ret = 0
    /\ pre.obj.account_id # proxy.obj.account_id
    /\ pre.obj.url # proxy.obj.url

\* C2: a rejected setter call leaves every field and the built_url as they
\* were immediately before the call.
C2_RejectedSetterChangesNothing ==
    (LastIsSetter /\ last.ret # 0) => proxy = pre

\* C2 is witnessed where a live OrderList getter has rejected a malformed
\* from_entered_time.
C2_Witness ==
    /\ Live
    /\ Kind = "OrdersGetterImpl"
    /\ last.op = "OrdersGetter_SetFromEnteredTime_ABI"
    /\ last.args.from_entered_time = Ptr("2020-13-01")
    /\ last.ret = TDMA_API_VALUE_ERROR

\* A string argument that is given and is not empty.
GivenNonEmpty(a) == ~a.null /\ a.str # ""

\* An optional date argument: absent, empty, or an ISO-8601 date.
OptionalDate(a) ==
    a.null \/ a.str = "" \/ is_valid_iso8601_datetime(a.str)

\* A required time argument: given, not empty, and an ISO-8601 date.
RequiredTime(a) ==
    ~a.null /\ a.str # "" /\ is_valid_iso8601_datetime(a.str)

\* Every argument of the last create call passes the validation rules of its
\* variant. nmax_results is judged as the constructor receives it, as a
\* 32-bit unsigned value.
CreateArgsValid ==
    /\ last.args.pcreds # "NULL"
    /\ CASE last.op = "AccountInfoGetter_Create_ABI" ->
                GivenNonEmpty(last.args.account_id)
         [] last.op = "PreferencesGetter_Create_ABI" ->
                GivenNonEmpty(last.args.account_id)
         [] last.op = "StreamerSubscriptionKeysGetter_Create_ABI" ->
                GivenNonEmpty(last.args.account_id)
         [] last.op = "TransactionHistoryGetter_Create_ABI" ->
                /\ GivenNonEmpty(last.args.account_id)
                /\ TransactionType_is_valid(last.args.transaction_type)
                /\ OptionalDate(last.args.start_date)
                /\ OptionalDate(last.args.end_date)
         [] last.op = "IndividualTransactionHistoryGetter_Create_ABI" ->
                /\ GivenNonEmpty(last.args.account_id)
                /\ GivenNonEmpty(last.args.transaction_id)
         [] last.op = "UserPrincipalsGetter_Create_ABI" -> TRUE
         [] last.op = "OrderGetter_Create_ABI" ->
                /\ GivenNonEmpty(last.args.account_id)
                /\ GivenNonEmpty(last.args.order_id)
         [] last.op = "OrdersGetter_Create_ABI" ->
                /\ GivenNonEmpty(last.args.account_id)
                /\ ~LessThanOne(ToUnsigned(last.args.nmax_results))
                /\ RequiredTime(last.args.from_entered_time)
                /\ RequiredTime(last.args.to_entered_time)
                /\ OrderStatusType_is_valid(last.args.order_status_type)
         [] OTHER -> FALSE

\* The keys of the query that follows the account path and segment seg in
\* the URL of o, in their order.
KeysAfter(o, seg) == QueryKeys(Rest(o.url, AccountPath(o) \o seg))

\* The last call was setter op on a live getter of the given kind.
SetterOn(op, kind) ==
    last.op = op /\ pre.obj # NoObj /\ pre.obj.kind = kind

\* C3: construction is atomic for every variant. After a create call with an
\* invalid argument the call has reported an error and the proxy holds no
\* object and the type tag -1; after any create call that reported an error
\* the proxy holds no object; a create call that reported success left an
\* object, and then every argument was valid.
C3_ConstructionIsAtomic ==
    last.op \in CreateOps =>
        /\ ~CreateArgsValid => (last.ret # 0 /\ proxy = kill_proxy)
        /\ last.ret # 0 => proxy = kill_proxy
        /\ last.ret = 0 => (Live /\ CreateArgsValid)

\* C3 is witnessed where the OrderList create call was given a valid account
\* id, a valid count, a valid from_entered_time and a malformed
\* to_entered_time, the argument its constructor validates last.
C3_Witness ==
    /\ last.op = "OrdersGetter_Create_ABI"
    /\ last.args.pcreds = "creds"
    /\ last.args.account_id = Ptr("a/1")
    /\ last.args.nmax_results = 1
    /\ last.args.from_entered_time = Ptr("2020-01-01")
    /\ last.args.to_entered_time = Ptr("2020-13-01")
    /\ last.args.order_status_type = 0
    /\ last.ret = TDMA_API_VALUE_ERROR
    /\ proxy = kill_proxy

\* C4: there is no invalid-but-alive getter. In every state the fields of a
\* live getter satisfy all validity predicates of its variant: account_id is
\* not empty (account-scoped variants), order_id (Order) and transaction_id
\* (IndividualTransactionHistory) are not empty, start_date and end_date
\* (TransactionHistory) are empty or ISO-8601, from_entered_time and
\* to_entered_time (OrderList) are ISO-8601, and nmax_results is >= 1.
C4_NoInvalidButAlive ==
    Live =>
        /\ Kind \in AccountKinds => proxy.obj.account_id # ""
        /\ Kind = "OrderGetterImpl" => proxy.obj.order_id # ""
        /\ Kind = "IndividualTransactionHistoryGetterImpl" =>
               proxy.obj.transaction_id # ""
        /\ Kind = "TransactionHistoryGetterImpl" =>
               /\ proxy.obj.start_date = ""
                    \/ is_valid_iso8601_datetime(proxy.obj.start_date)
               /\ proxy.obj.end_date = ""
                    \/ is_valid_iso8601_datetime(proxy.obj.end_date)
        /\ Kind = "OrdersGetterImpl" =>
               /\ is_valid_iso8601_datetime(proxy.obj.from_entered_time)
               /\ is_valid_iso8601_datetime(proxy.obj.to_entered_time)
               /\ ~LessThanOne(proxy.obj.nmax_results)

\* C4 is witnessed where a live Order getter has been asked to take the empty
\* order id and still holds the one it had.
C4_Witness ==
    /\ Live
    /\ SetterOn("OrderGetter_SetOrderId_ABI", "OrderGetterImpl")
    /\ last.args.order_id = Ptr("")
    /\ proxy.obj.order_id = "7"

\* C5 as stated: with credentials given, every create call of an
\* account-scoped getter with a non-empty account id succeeds, whatever its
\* other arguments are, and every one with an empty account id fails with
\* InvalidArgument.
C5_NonEmptyAccountIdSuffices ==
    (last.op \in AccountCreateOps /\ last.args.pcreds = "creds"
        /\ ~last.args.account_id.null) =>
        IF last.args.account_id.str # ""
        THEN last.ret = 0 /\ Live
        ELSE last.ret \in InvalidArgument /\ ~Live

\* C5, amended: a create call of an account-scoped getter with a non-empty
\* account id succeeds when the other arguments of the variant are valid
\* too, and the getter then holds that account id; with an empty account id
\* it fails with InvalidArgument for every variant, whatever the other
\* arguments are.
C5_AccountIdAtConstruction ==
    (last.op \in AccountCreateOps /\ ~last.args.account_id.null) =>
        /\ (last.args.account_id.str # "" /\ CreateArgsValid) =>
               /\ last.ret = 0
               /\ Live
               /\ proxy.obj.account_id = last.args.account_id.str
        /\ last.args.account_id.str = "" =>
               (last.ret \in InvalidArgument /\ ~Live)

\* C5 is witnessed where the IndividualTransactionHistory create call, given
\* a non-empty account id and a transaction id, has produced a getter.
C5_Witness ==
    /\ last.op = "IndividualTransactionHistoryGetter_Create_ABI"
    /\ last.args.account_id = Ptr("a/1")
    /\ last.args.transaction_id = Ptr("7")
    /\ last.ret = 0
    /\ Live
    /\ proxy.obj.account_id = "a/1"

\* C6: for OrderList, from_entered_time and to_entered_time are always
\* required. The create call and both setters reject the empty string and
\* every string that is no ISO-8601 date with InvalidArgument, the create
\* call leaving no getter and the setter leaving the getter as it was; and
\* no live OrderList getter holds an empty from_entered_time or
\* to_entered_time.
C6_OrderTimesRequired ==
    /\ (last.op = "OrdersGetter_Create_ABI"
            /\ (~RequiredTime(last.args.from_entered_time)
                  \/ ~RequiredTime(last.args.to_entered_time))) =>
           (last.ret \in InvalidArgument /\ ~Live)
    /\ (SetterOn("OrdersGetter_SetFromEnteredTime_ABI", "OrdersGetterImpl")
            /\ ~RequiredTime(last.args.from_entered_time)) =>
           (last.ret \in InvalidArgument /\ proxy = pre)
    /\ (SetterOn("OrdersGetter_SetToEnteredTime_ABI", "OrdersGetterImpl")
            /\ ~RequiredTime(last.args.to_entered_time)) =>
           (last.ret \in InvalidArgument /\ proxy = pre)
    /\ (Live /\ Kind = "OrdersGetterImpl") =>
           (proxy.obj.from_entered_time # "" /\ proxy.obj.to_entered_time # "")

\* C6 is witnessed where a live OrderList getter has rejected the empty
\* string as its to_entered_time.
C6_Witness ==
    /\ Live
    /\ SetterOn("OrdersGetter_SetToEnteredTime_ABI", "OrdersGetterImpl")
    /\ last.args.to_entered_time = Ptr("")
    /\ last.ret = TDMA_API_VALUE_ERROR
    /\ proxy.obj.to_entered_time # ""

\* C7: in every state the URL of a live OrderList getter is the account
\* path, /orders? and a query whose keys are maxResults, fromEnteredTime,
\* toEnteredTime, status: all four, each once, in that order.
C7_OrdersQueryHasAllFour ==
    (Live /\ Kind = "OrdersGetterImpl") =>
        /\ StartsWith(proxy.obj.url, AccountPath(proxy.obj) \o "/orders?")
        /\ KeysAfter(proxy.obj, "/orders?") =
               <<"maxResults", "fromEnteredTime", "toEnteredTime", "status">>

\* C7 is witnessed where a setter has replaced the status of a live OrderList
\* getter.
C7_Witness ==
    /\ Live
    /\ SetterOn("OrdersGetter_SetOrderStatusType_ABI", "OrdersGetterImpl")
    /\ last.ret = 0
    /\ proxy.obj.order_status_type # pre.obj.order_status_type

\* C8 as stated: the OrderList create call and set_nmax_results reject every
\* count below 1 the caller supplies, 0 and the negative ints alike, with
\* InvalidArgument, and leave no getter (create) or the getter as it was
\* (setter).
C8_BelowOneRejected ==
    /\ (last.op = "OrdersGetter_Create_ABI" /\ last.args.nmax_results < 1) =>
           (last.ret \in InvalidArgument /\ ~Live)
    /\ (SetterOn("OrdersGetter_SetNMaxResults_ABI", "OrdersGetterImpl")
            /\ last.args.nmax_results < 1) =>
           (last.ret \in InvalidArgument /\ proxy = pre)

\* What the code does with a negative count: set_nmax_results, given the
\* caller's -1, reports success and the getter holds 4294967295 and renders
\* it as maxResults.
C8_NegativeCountStored ==
    /\ Live
    /\ SetterOn("OrdersGetter_SetNMaxResults_ABI", "OrdersGetterImpl")
    /\ last.args.nmax_results = -1
    /\ last.ret = 0
    /\ to_string(proxy.obj.nmax_results) = "4294967295"
    /\ StartsWith(QueryOf(proxy.obj.url), "maxResults=4294967295&")

\* C9: for TransactionHistory, start_date and end_date are optional. The
\* create call and the setters reject a non-empty string that is no ISO-8601
\* date with InvalidArgument; they accept the empty string, given every other
\* argument is valid; and the query of a live getter has the parameter
\* startDate (endDate) exactly when its start_date (end_date) is not empty.
C9_TransactionDatesOptional ==
    /\ (last.op = "TransactionHistoryGetter_Create_ABI"
            /\ (~OptionalDate(last.args.start_date)
                  \/ ~OptionalDate(last.args.end_date))) =>
           (last.ret \in InvalidArgument /\ ~Live)
    /\ (last.op = "TransactionHistoryGetter_Create_ABI" /\ CreateArgsValid) =>
           (last.ret = 0 /\ Live)
    /\ (SetterOn("TransactionHistoryGetter_SetStartDate_ABI",
                 "TransactionHistoryGetterImpl")
            /\ ~last.args.start_date.null) =>
           IF OptionalDate(last.args.start_date)
           THEN last.ret = 0 /\ proxy.obj.start_date = last.args.start_date.str
           ELSE last.ret \in InvalidArgument /\ proxy = pre
    /\ (SetterOn("TransactionHistoryGetter_SetEndDate_ABI",
                 "TransactionHistoryGetterImpl")
            /\ ~last.args.end_date.null) =>
           IF OptionalDate(last.args.end_date)
           THEN last.ret = 0 /\ proxy.obj.end_date = last.args.end_date.str
           ELSE last.ret \in InvalidArgument /\ proxy = pre
    /\ (Live /\ Kind = "TransactionHistoryGetterImpl") =>
           \A i \in 1..Len(KeysAfter(proxy.obj, "/transactions?")) :
               /\ KeysAfter(proxy.obj, "/transactions?")[i] = "startDate" =>
                      proxy.obj.start_date # ""
               /\ KeysAfter(proxy.obj, "/transactions?")[i] = "endDate" =>
                      proxy.obj.end_date # ""

\* C9 is witnessed where a live TransactionHistory getter that had a start
\* date has accepted the empty string as its start_date.
C9_Witness ==
    /\ Live
    /\ SetterOn("TransactionHistoryGetter_SetStartDate_ABI",
                "TransactionHistoryGetterImpl")
    /\ last.args.start_date = Ptr("")
    /\ last.ret = 0
    /\ pre.obj.start_date # ""
    /\ proxy.obj.start_date = ""

\* C10: in every state the query of a live TransactionHistory getter follows
\* the account path and /transactions?, and its keys are those of type,
\* symbol, startDate, endDate whose field is not empty, in that order, each
\* once (type is the name of the enum value, which is never empty).
C10_TransactionQueryOrder ==
    (Live /\ Kind = "TransactionHistoryGetterImpl") =>
        /\ StartsWith(proxy.obj.url,
                      AccountPath(proxy.obj) \o "/transactions?")
        /\ KeysAfter(proxy.obj, "/transactions?") =
               Select(<<"type", "symbol", "startDate", "endDate">>,
                      <<to_string_TransactionType(
                            proxy.obj.transaction_type) # "",
                        proxy.obj.symbol # "",
                        proxy.obj.start_date # "",
                        proxy.obj.end_date # "">>)

\* C10 is witnessed where set_symbol has cleared the symbol of a live
\* TransactionHistory getter that keeps a start date and an end date.
C10_Witness ==
    /\ Live
    /\ SetterOn("TransactionHistoryGetter_SetSymbol_ABI",
                "TransactionHistoryGetterImpl")
    /\ last.args.symbol = Ptr("")
    /\ last.ret = 0
    /\ pre.obj.symbol # ""
    /\ proxy.obj.symbol = ""
    /\ proxy.obj.start_date # ""
    /\ proxy.obj.end_date # ""

\* C11: in every state the URL of a live AccountInfo getter is the account
\* path followed by what its two flags determine: nothing at all, no query
\* string, for (false, false); ?fields=positions for (true, false);
\* ?fields=positions,orders for (true, true); ?fields=orders for
\* (false, true).
C11_AccountInfoFields ==
    (Live /\ Kind = "AccountInfoGetterImpl") =>
        /\ proxy.obj.url =
               AccountPath(proxy.obj)
               \o (CASE ~proxy.obj.positions /\ ~proxy.obj.orders -> ""
                     [] proxy.obj.positions /\ ~proxy.obj.orders ->
                            "?fields=positions"
                     [] proxy.obj.positions /\ proxy.obj.orders ->
                            "?fields=positions,orders"
                     [] ~proxy.obj.positions /\ proxy.obj.orders ->
                            "?fields=orders")
        /\ (~proxy.obj.positions /\ ~proxy.obj.orders) =>
               Find(proxy.obj.url, "?", 1) = 0

\* C11 is witnessed where return_positions has cleared positions on a live
\* AccountInfo getter that returned both, leaving orders alone.
C11_Witness ==
    /\ Live
    /\ SetterOn("AccountInfoGetter_ReturnPositions_ABI", "AccountInfoGetterImpl")
    /\ last.ret = 0
    /\ pre.obj.positions /\ pre.obj.orders
    /\ ~proxy.obj.positions /\ proxy.obj.orders

\* C12: in every state the URL of a live UserPrincipals getter is
\* .../userprincipals followed, when a flag is true, by ?fields= and the
\* names of the true flags joined by commas in the order
\* streamerSubscriptionKeys, streamerConnectionInfo, preferences,
\* surrogateIds; when no flag is true the URL has no query string.
C12_UserPrincipalsFields ==
    (Live /\ Kind = "UserPrincipalsGetterImpl") =>
        LET names == Select(<<"streamerSubscriptionKeys",
                              "streamerConnectionInfo", "preferences",
                              "surrogateIds">>,
                            <<proxy.obj.streamer_subscription_keys,
                              proxy.obj.streamer_connection_info,
                              proxy.obj.preferences,
                              proxy.obj.surrogate_ids>>)
        IN  IF names = <<>>
            THEN /\ proxy.obj.url = URL_BASE \o "userprincipals"
                 /\ Find(proxy.obj.url, "?", 1) = 0
            ELSE /\ StartsWith(proxy.obj.url,
                               URL_BASE \o "userprincipals?fields=")
                 /\ Split(Rest(proxy.obj.url,
                               URL_BASE \o "userprincipals?fields="), ",")
                        = names

\* C12 is witnessed where the first flag was set last: the three later flags
\* were true, return_streamer_subscription_keys(true) followed, and all four
\* are true now.
C12_Witness ==
    /\ Live
    /\ SetterOn("UserPrincipalsGetter_ReturnSubscriptionKeys_ABI",
                "UserPrincipalsGetterImpl")
    /\ last.ret = 0
    /\ ~pre.obj.streamer_subscription_keys
    /\ pre.obj.streamer_connection_info
    /\ pre.obj.preferences
    /\ pre.obj.surrogate_ids
    /\ proxy.obj.streamer_subscription_keys
    /\ proxy.obj.url = URL_BASE \o "userprincipals?fields=streamerSubscriptionKeys,streamerConnectionInfo,preferences,surrogateIds"

\* The parameters key=value of the query of a URL.
QueryParams(url) ==
    IF QueryOf(url) = "" THEN {}
    ELSE {Split(QueryOf(url), "&")[i] : i \in 1..Len(Split(QueryOf(url), "&"))}

\* C13: the symbol of a live TransactionHistory getter is upper-cased. In
\* every state get_symbol returns a string without a lower-case letter;
\* after a create or a set_symbol that succeeded it is the upper-cased
\* argument; and a symbol that is not empty is in the query as
\* symbol=<that upper-cased string>.
C13_SymbolUpperCased ==
    (Live /\ Kind = "TransactionHistoryGetterImpl") =>
        /\ \A i \in 1..Len(get_symbol(proxy.obj)) :
               CharAt(get_symbol(proxy.obj), i) \notin LowerSet
        /\ (/\ last.op \in {"TransactionHistoryGetter_Create_ABI",
                            "TransactionHistoryGetter_SetSymbol_ABI"}
            /\ last.ret = 0
            /\ ~last.args.symbol.null) =>
               get_symbol(proxy.obj) = toupper(last.args.symbol.str)
        /\ get_symbol(proxy.obj) # "" =>
               ("symbol=" \o get_symbol(proxy.obj)) \in QueryParams(proxy.obj.url)

\* C13 is witnessed where set_symbol was given "aapl" on a live
\* TransactionHistory getter: it holds "AAPL" and the query has symbol=AAPL.
C13_Witness ==
    /\ Live
    /\ SetterOn("TransactionHistoryGetter_SetSymbol_ABI",
                "TransactionHistoryGetterImpl")
    /\ last.args.symbol = Ptr("aapl")
    /\ last.ret = 0
    /\ pre.obj.symbol # "AAPL"
    /\ get_symbol(proxy.obj) = "AAPL"
    /\ "symbol=AAPL" \in QueryParams(proxy.obj.url)

\* C14: transaction_type and order_status_type must be values of their enum.
\* A create call given an integer outside the enum reports an error and
\* leaves no object; a setter given one reports an error and leaves the
\* proxy, with every field and the URL of its getter, as it was; and in every
\* state the value a live TransactionHistory or OrderList getter holds is a
\* value of the enum, the one last accepted.
C14_EnumsChecked ==
    /\ (/\ last.op = "TransactionHistoryGetter_Create_ABI"
        /\ ~TransactionType_is_valid(last.args.transaction_type)) =>
           (last.ret \in InvalidArgument /\ ~Live)
    /\ (/\ last.op = "OrdersGetter_Create_ABI"
        /\ ~OrderStatusType_is_valid(last.args.order_status_type)) =>
           (last.ret \in InvalidArgument /\ ~Live)
    /\ (/\ last.op = "TransactionHistoryGetter_SetTransactionType_ABI"
        /\ ~TransactionType_is_valid(last.args.transaction_type)) =>
           (last.ret \in InvalidArgument /\ proxy = pre)
    /\ (/\ last.op = "OrdersGetter_SetOrderStatusType_ABI"
        /\ ~OrderStatusType_is_valid(last.args.order_status_type)) =>
           (last.ret \in InvalidArgument /\ proxy = pre)
    /\ (Live /\ Kind = "TransactionHistoryGetterImpl") =>
           /\ TransactionType_is_valid(proxy.obj.transaction_type)
           /\ (/\ last.op \in {"TransactionHistoryGetter_Create_ABI",
                               "TransactionHistoryGetter_SetTransactionType_ABI"}
               /\ last.ret = 0) =>
                  proxy.obj.transaction_type = last.args.transaction_type
    /\ (Live /\ Kind = "OrdersGetterImpl") =>
           /\ OrderStatusType_is_valid(proxy.obj.order_status_type)
           /\ (/\ last.op \in {"OrdersGetter_Create_ABI",
                               "OrdersGetter_SetOrderStatusType_ABI"}
               /\ last.ret = 0) =>
                  proxy.obj.order_status_type = last.args.order_status_type

\* C14 is witnessed where set_transaction_type was given the first integer
\* past the enum on a live TransactionHistory getter, which is as it was.
C14_Witness ==
    /\ Live
    /\ SetterOn("TransactionHistoryGetter_SetTransactionType_ABI",
                "TransactionHistoryGetterImpl")
    /\ last.args.transaction_type = Len(TransactionTypeNames)
    /\ last.ret = TDMA_API_VALUE_ERROR
    /\ proxy = pre
    /\ proxy.obj.transaction_type = 1

\* The string arguments a create call requires to be given.
RequiredPointers(op) ==
    CASE op = "UserPrincipalsGetter_Create_ABI" -> {}
      [] op = "IndividualTransactionHistoryGetter_Create_ABI" ->
             {"account_id", "transaction_id"}
      [] op = "OrderGetter_Create_ABI" -> {"account_id", "order_id"}
      [] op = "OrdersGetter_Create_ABI" ->
             {"account_id", "from_entered_time", "to_entered_time"}
      [] OTHER -> {"account_id"}

\* C15: after a create call whose credentials handle is null, or with a
\* required string pointer that is null, the call has reported an error and
\* the proxy holds no object. The error is that of the pointer check, not
\* one the constructor raises, whatever the other arguments are: the check
\* comes before the constructor (only the enum check of the
\* TransactionHistory create comes before its pointer check).
C15_NullPointersRejected ==
    last.op \in CreateOps =>
        /\ last.args.pcreds = "NULL" =>
               (last.ret = TDMA_API_NULL_POINTER /\ ~Live)
        /\ (\E f \in RequiredPointers(last.op) : last.args[f].null) =>
               /\ last.ret \in InvalidArgument
               /\ ~Live
               /\ (\/ last.op # "TransactionHistoryGetter_Create_ABI"
                   \/ TransactionType_is_valid(last.args.transaction_type)) =>
                      last.ret = TDMA_API_NULL_POINTER

\* C15 is witnessed where the Order create was given credentials, an account
\* id and no order id.
C15_Witness ==
    /\ last.op = "OrderGetter_Create_ABI"
    /\ last.args.pcreds = "creds"
    /\ last.args.account_id = Ptr("a/1")
    /\ last.args.order_id = NULLPTR
    /\ last.ret = TDMA_API_NULL_POINTER
    /\ ~Live

\* The implementation class and the type tag of the variant a create call
\* makes.
VariantOf(op) ==
    CASE op = "AccountInfoGetter_Create_ABI" ->
             <<"AccountInfoGetterImpl", TYPE_ID_GETTER_ACCOUNT_INFO>>
      [] op = "PreferencesGetter_Create_ABI" ->
             <<"PreferencesGetterImpl", TYPE_ID_GETTER_PREFERENCES>>
      [] op = "StreamerSubscriptionKeysGetter_Create_ABI" ->
             <<"StreamerSubscriptionKeysGetterImpl",
               TYPE_ID_GETTER_SUBSCRIPTION_KEYS>>
      [] op = "TransactionHistoryGetter_Create_ABI" ->
             <<"TransactionHistoryGetterImpl",
               TYPE_ID_GETTER_TRANSACTION_HISTORY>>
      [] op = "IndividualTransactionHistoryGetter_Create_ABI" ->
             <<"IndividualTransactionHistoryGetterImpl",
               TYPE_ID_GETTER_IND_TRANSACTION_HISTORY>>
      [] op = "UserPrincipalsGetter_Create_ABI" ->
             <<"UserPrincipalsGetterImpl", TYPE_ID_GETTER_USER_PRINCIPALS>>
      [] op = "OrderGetter_Create_ABI" ->
             <<"OrderGetterImpl", TYPE_ID_GETTER_ORDER>>
      [] op = "OrdersGetter_Create_ABI" ->
             <<"OrdersGetterImpl", TYPE_ID_GETTER_ORDERS>>

\* C16: a create call has two outcomes. Either it returned 0 and the proxy
\* holds an object of the class of that variant under the type tag of that
\* variant, or it returned a code other than 0 and the proxy holds no
\* object. It never returns 0 with an empty proxy and never an error with
\* an object.
C16_CreateOutcomes ==
    last.op \in CreateOps =>
        \/ /\ last.ret = 0
           /\ Live
           /\ Kind = VariantOf(last.op)[1]
           /\ proxy.type_id = VariantOf(last.op)[2]
        \/ /\ last.ret # 0
           /\ ~Live
           /\ proxy.type_id \notin TypeIds

\* C16 is witnessed where the UserPrincipals create returned 0 and the proxy
\* holds a UserPrincipals getter under the UserPrincipals tag.
C16_Witness ==
    /\ last.op = "UserPrincipalsGetter_Create_ABI"
    /\ last.ret = 0
    /\ Live
    /\ Kind = "UserPrincipalsGetterImpl"
    /\ proxy.type_id = TYPE_ID_GETTER_USER_PRINCIPALS

\* The segments of the path of an account URL, after .../accounts/.
PathSegments(url) == Split(Rest(url, URL_ACCOUNTS), "/")

\* C17: each identifier is percent-encoded on its own before the URL is put
\* together. The URL of a live Preferences, IndividualTransactionHistory or
\* Order getter holds no ? and its path after .../accounts/ has exactly the
\* segments encoded account id, then preferences, or transactions and the
\* encoded transaction id, or orders and the encoded order id. The URL of a
\* live SubscriptionKeys getter is .../userprincipals/streamersubscriptionkeys
\* followed by one ? and the single parameter accountIds=<encoded account id>.
C17_IdentifiersEncoded ==
    Live =>
        /\ Kind = "PreferencesGetterImpl" =>
               /\ Find(proxy.obj.url, "?", 1) = 0
               /\ StartsWith(proxy.obj.url, URL_ACCOUNTS)
               /\ PathSegments(proxy.obj.url)
                      = <<url_encode(proxy.obj.account_id), "preferences">>
        /\ Kind = "IndividualTransactionHistoryGetterImpl" =>
               /\ Find(proxy.obj.url, "?", 1) = 0
               /\ StartsWith(proxy.obj.url, URL_ACCOUNTS)
               /\ PathSegments(proxy.obj.url)
                      = <<url_encode(proxy.obj.account_id), "transactions",
                          url_encode(proxy.obj.transaction_id)>>
        /\ Kind = "OrderGetterImpl" =>
               /\ Find(proxy.obj.url, "?", 1) = 0
               /\ StartsWith(proxy.obj.url, URL_ACCOUNTS)
               /\ PathSegments(proxy.obj.url)
                      = <<url_encode(proxy.obj.account_id), "orders",
                          url_encode(proxy.obj.order_id)>>
        /\ Kind = "StreamerSubscriptionKeysGetterImpl" =>
               /\ Split(proxy.obj.url, "?")
                      = <<URL_BASE \o "userprincipals/streamersubscriptionkeys",
                          "accountIds=" \o url_encode(proxy.obj.account_id)>>
               /\ Split(QueryOf(proxy.obj.url), "&")
                      = <<"accountIds=" \o url_encode(proxy.obj.account_id)>>
               /\ Split(QueryOf(proxy.obj.url), "=")
                      = <<"accountIds", url_encode(proxy.obj.account_id)>>

\* C17 is witnessed where set_order_id gave a live Order getter of account
\* a/1 the order id x?y: the URL is .../accounts/a%2F1/orders/x%3Fy.
C17_Witness ==
    /\ Live
    /\ SetterOn("OrderGetter_SetOrderId_ABI", "OrderGetterImpl")
    /\ last.ret = 0
    /\ proxy.obj.account_id = "a/1"
    /\ proxy.obj.order_id = "x?y"
    /\ proxy.obj.url = URL_ACCOUNTS \o "a%2F1/orders/x%3Fy"

\* The pairs of a list whose value is not empty, in their order.
RECURSIVE Kept(_)
Kept(pairs) ==
    IF pairs = <<>> THEN <<>>
    ELSE (IF Head(pairs)[2] = "" THEN <<>> ELSE <<Head(pairs)>>)
         \o Kept(Tail(pairs))

\* C18: the string util::build_encoded_query_str returns for a list of pairs
\* is empty when no pair has a value, and otherwise splits at & into as many
\* pieces as there are pairs with a value that is not empty, the i-th piece
\* being encoded key = encoded value of the i-th such pair: the pairs with an
\* empty value are omitted, no other pair is, and the input order is kept.
\* The same list always gives the same string.
C18_QueryOmitsEmptyValues ==
    last.op = "build_encoded_query_str" =>
        LET params == last.args.params
            qstr   == last.ret
        IN  /\ qstr = build_encoded_query_str(params)
            /\ IF Kept(params) = <<>> THEN qstr = ""
               ELSE /\ Len(Split(qstr, "&")) = Len(Kept(params))
                    /\ \A i \in 1..Len(Kept(params)) :
                           Split(qstr, "&")[i]
                               = url_encode(Kept(params)[i][1]) \o "="
                                 \o url_encode(Kept(params)[i][2])

\* C18 is witnessed by a list of three pairs, the second with an empty
\* value, the first and third under the same key.
C18_Witness ==
    /\ last.op = "build_encoded_query_str"
    /\ last.args.params = << <<"k", "v">>, <<"a b", "">>, <<"k", "x&y">> >>
    /\ last.ret = "k=v&k=x%26y"

\* No thread is inside a setter.
AllReturned == \A t \in Threads : threads[t].pc \in {"idle", "returned"}

\* A thread has entered a setter while another was inside one.
Interleaved == \E t \in Threads : threads[t].overlapped

\* C19: a getter is not safe for concurrent mutation. When the setter calls
\* of the threads are serialized, each run to its return before the next
\* starts, then whenever no thread is inside a setter the URL of the getter
\* is the URL its fields derive. (That setters which interleave reach a
\* state, after both returned, where it is not, is C19_Witness.)
C19_SerializedSettersKeepUrl ==
    (threads # <<>> /\ AllReturned /\ ~Interleaved) =>
        proxy.obj.url = RuleUrl(proxy.obj)

\* C19 is witnessed where both threads have returned from setters that
\* succeeded and interleaved, and the URL is not the one the fields derive.
C19_Witness ==
    /\ threads # <<>>
    /\ \A t \in Threads : threads[t].pc = "returned" /\ threads[t].url # ""
    /\ Interleaved
    /\ proxy.obj.url # RuleUrl(proxy.obj)

\* The member a setter of the ABI is to change.
TargetOf(op) ==
    CASE op = "AccountGetterBase_SetAccountId_ABI" -> "account_id"
      [] op = "AccountInfoGetter_ReturnPositions_ABI" -> "positions"
      [] op = "AccountInfoGetter_ReturnOrders_ABI" -> "orders"
      [] op = "TransactionHistoryGetter_SetTransactionType_ABI" ->
             "transaction_type"
      [] op = "TransactionHistoryGetter_SetSymbol_ABI" -> "symbol"
      [] op = "TransactionHistoryGetter_SetStartDate_ABI" -> "start_date"
      [] op = "TransactionHistoryGetter_SetEndDate_ABI" -> "end_date"
      [] op = "IndividualTransactionHistoryGetter_SetTransactionId_ABI" ->
             "transaction_id"
      [] op = "UserPrincipalsGetter_ReturnSubscriptionKeys_ABI" ->
             "streamer_subscription_keys"
      [] op = "UserPrincipalsGetter_ReturnConnectionInfo_ABI" ->
             "streamer_connection_info"
      [] op = "UserPrincipalsGetter_ReturnPreferences_ABI" -> "preferences"
      [] op = "UserPrincipalsGetter_ReturnSurrogateIds_ABI" -> "surrogate_ids"
      [] op = "OrderGetter_SetOrderId_ABI" -> "order_id"
      [] op = "OrdersGetter_SetNMaxResults_ABI" -> "nmax_results"
      [] op = "OrdersGetter_SetFromEnteredTime_ABI" -> "from_entered_time"
      [] op = "OrdersGetter_SetToEnteredTime_ABI" -> "to_entered_time"
      [] op = "OrdersGetter_SetOrderStatusType_ABI" -> "order_status_type"

\* The last call left the getter with the members it had, each with its
\* value, but for the target of the call and the URL.
FrameKept ==
    /\ proxy.type_id = pre.type_id
    /\ proxy.obj # NoObj
    /\ DOMAIN proxy.obj = DOMAIN pre.obj
    /\ \A f \in DOMAIN pre.obj \ {TargetOf(last.op), "url"} :
           proxy.obj[f] = pre.obj[f]

\* The last call was a setter that succeeded on a live getter.
SetterSucceeded == LastIsSetter /\ last.ret = 0 /\ pre.obj # NoObj

\* The last call was AccountGetterBase_SetAccountId_ABI on a getter that has
\* no account id.
SetAccountIdOnUserPrincipals ==
    SetterOn("AccountGetterBase_SetAccountId_ABI", "UserPrincipalsGetterImpl")

\* C20: a setter that succeeded changed only its target member and the URL:
\* every other member of the getter, account_id after a setter of the
\* variant and the members of the variant after set_account_id, has the
\* value it had; and a per-field getter, whatever it returned, left the
\* proxy and its getter as they were.
C20_SettersChangeOnlyTheirField ==
    /\ SetterSucceeded => FrameKept
    /\ last.op \in GetOps => proxy = pre

\* C20, for every call but AccountGetterBase_SetAccountId_ABI on a
\* UserPrincipals getter.
C20_FrameOfOwnSetters ==
    /\ (SetterSucceeded /\ ~SetAccountIdOnUserPrincipals) => FrameKept
    /\ last.op \in GetOps => proxy = pre

\* C20 fails where AccountGetterBase_SetAccountId_ABI returned 0 on a
\* UserPrincipals getter and a flag of that getter is no longer what it was.
C20_SetAccountIdChangedFlags ==
    /\ SetAccountIdOnUserPrincipals
    /\ last.ret = 0
    /\ Live
    /\ proxy.obj.preferences # pre.obj.preferences
    /\ last.args.account_id = Ptr("B2")

\* The setters of the ABI, by name.
SetterOps ==
    {"AccountGetterBase_SetAccountId_ABI",
     "AccountInfoGetter_ReturnPositions_ABI",
     "AccountInfoGetter_ReturnOrders_ABI",
     "TransactionHistoryGetter_SetTransactionType_ABI",
     "TransactionHistoryGetter_SetSymbol_ABI",
     "TransactionHistoryGetter_SetStartDate_ABI",
     "TransactionHistoryGetter_SetEndDate_ABI",
     "IndividualTransactionHistoryGetter_SetTransactionId_ABI",
     "UserPrincipalsGetter_ReturnSubscriptionKeys_ABI",
     "UserPrincipalsGetter_ReturnConnectionInfo_ABI",
     "UserPrincipalsGetter_ReturnPreferences_ABI",
     "UserPrincipalsGetter_ReturnSurrogateIds_ABI",
     "OrderGetter_SetOrderId_ABI", "OrdersGetter_SetNMaxResults_ABI",
     "OrdersGetter_SetFromEnteredTime_ABI",
     "OrdersGetter_SetToEnteredTime_ABI",
     "OrdersGetter_SetOrderStatusType_ABI"}

\* The arguments a caller passes to the setter op.
SetterArgs(op) ==
    CASE op = "AccountGetterBase_SetAccountId_ABI" -> AccountIdArgs
      [] op \in {"AccountInfoGetter_ReturnPositions_ABI",
                 "AccountInfoGetter_ReturnOrders_ABI",
                 "UserPrincipalsGetter_ReturnSubscriptionKeys_ABI",
                 "UserPrincipalsGetter_ReturnConnectionInfo_ABI",
                 "UserPrincipalsGetter_ReturnPreferences_ABI",
                 "UserPrincipalsGetter_ReturnSurrogateIds_ABI"} -> IntBools
      [] op = "TransactionHistoryGetter_SetTransactionType_ABI" ->
             TransactionTypeArgs
      [] op = "TransactionHistoryGetter_SetSymbol_ABI" -> SymbolArgs
      [] op \in {"TransactionHistoryGetter_SetStartDate_ABI",
                 "TransactionHistoryGetter_SetEndDate_ABI",
                 "OrdersGetter_SetFromEnteredTime_ABI",
                 "OrdersGetter_SetToEnteredTime_ABI"} -> DateArgs
      [] op \in {"IndividualTransactionHistoryGetter_SetTransactionId_ABI",
                 "OrderGetter_SetOrderId_ABI"} -> IdArgs
      [] op = "OrdersGetter_SetNMaxResults_ABI" -> NMaxArgs
      [] op = "OrdersGetter_SetOrderStatusType_ABI" -> OrderStatusTypeArgs

\* The outcomes of the setter op called with the argument a through the
\* proxy p.
SetterOutcomes(op, p, a) ==
    CASE op = "AccountGetterBase_SetAccountId_ABI" ->
             AccountGetterBase_SetAccountId_ABI(p, a)
      [] op = "AccountInfoGetter_ReturnPositions_ABI" ->
             {AccountInfoGetter_ReturnPositions_ABI(p, a)}
      [] op = "AccountInfoGetter_ReturnOrders_ABI" ->
             {AccountInfoGetter_ReturnOrders_ABI(p, a)}
      [] op = "TransactionHistoryGetter_SetTransactionType_ABI" ->
             {TransactionHistoryGetter_SetTransactionType_ABI(p, a)}
      [] op = "TransactionHistoryGetter_SetSymbol_ABI" ->
             {TransactionHistoryGetter_SetSymbol_ABI(p, a)}
      [] op = "TransactionHistoryGetter_SetStartDate_ABI" ->
             {TransactionHistoryGetter_SetStartDate_ABI(p, a)}
      [] op = "TransactionHistoryGetter_SetEndDate_ABI" ->
             {TransactionHistoryGetter_SetEndDate_ABI(p, a)}
      [] op = "IndividualTransactionHistoryGetter_SetTransactionId_ABI" ->
             {IndividualTransactionHistoryGetter_SetTransactionId_ABI(p, a)}
      [] op = "UserPrincipalsGetter_ReturnSubscriptionKeys_ABI" ->
             {UserPrincipalsGetter_ReturnSubscriptionKeys_ABI(p, a)}
      [] op = "UserPrincipalsGetter_ReturnConnectionInfo_ABI" ->
             {UserPrincipalsGetter_ReturnConnectionInfo_ABI(p, a)}
      [] op = "UserPrincipalsGetter_ReturnPreferences_ABI" ->
             {UserPrincipalsGetter_ReturnPreferences_ABI(p, a)}
      [] op = "UserPrincipalsGetter_ReturnSurrogateIds_ABI" ->
             {UserPrincipalsGetter_ReturnSurrogateIds_ABI(p, a)}
      [] op = "OrderGetter_SetOrderId_ABI" ->
             {OrderGetter_SetOrderId_ABI(p, a)}
      [] op = "OrdersGetter_SetNMaxResults_ABI" ->
             {OrdersGetter_SetNMaxResults_ABI(p, ToUnsigned(a))}
      [] op = "OrdersGetter_SetFromEnteredTime_ABI" ->
             {OrdersGetter_SetFromEnteredTime_ABI(p, a)}
      [] op = "OrdersGetter_SetToEnteredTime_ABI" ->
             {OrdersGetter_SetToEnteredTime_ABI(p, a)}
      [] op = "OrdersGetter_SetOrderStatusType_ABI" ->
             {OrdersGetter_SetOrderStatusType_ABI(p, a)}

\* The proxies a call of op with a through p that returns 0 can leave.
Succeeds(op, p, a) == {r.proxy : r \in {x \in SetterOutcomes(op, p, a) : x.ret = 0}}

\* What the constructor of the variant of the getter o returns for the
\* field values o holds.
Constructed(o) ==
    CASE o.kind = "AccountInfoGetterImpl" ->
             AccountInfoGetterImpl(o.account_id, o.positions, o.orders)
      [] o.kind = "PreferencesGetterImpl" -> PreferencesGetterImpl(o.account_id)
      [] o.kind = "StreamerSubscriptionKeysGetterImpl" ->
             StreamerSubscriptionKeysGetterImpl(o.account_id)
      [] o.kind = "TransactionHistoryGetterImpl" ->
             TransactionHistoryGetterImpl(o.account_id, o.transaction_type,
                                          o.symbol, o.start_date, o.end_date)
      [] o.kind = "IndividualTransactionHistoryGetterImpl" ->
             IndividualTransactionHistoryGetterImpl(o.account_id,
                                                    o.transaction_id)
      [] o.kind = "UserPrincipalsGetterImpl" ->
             UserPrincipalsGetterImpl(o.streamer_subscription_keys,
                                      o.streamer_connection_info,
                                      o.preferences, o.surrogate_ids)
      [] o.kind = "OrderGetterImpl" -> OrderGetterImpl(o.account_id, o.order_id)
      [] o.kind = "OrdersGetterImpl" ->
             OrdersGetterImpl(o.account_id, o.nmax_results,
                              o.from_entered_time, o.to_entered_time,
                              o.order_status_type)

\* The getter under the proxy is the getter its constructor makes from the
\* field values it holds: whatever calls led to it, its URL is that of every
\* getter of the variant with these field values.
HistoryIndependent == Constructed(proxy.obj) = Return(proxy.obj)

\* Two setters of the ABI with different targets, both successful on the
\* getter under the proxy, leave the same getters in either order. The
\* calls in scope are those of in_scope.
SettersCommute(in_scope) ==
    \A op1 \in in_scope :
        \A a1 \in SetterArgs(op1) :
            \A q1 \in Succeeds(op1, proxy, a1) :
                \A op2 \in in_scope :
                    TargetOf(op2) # TargetOf(op1) =>
                        \A a2 \in SetterArgs(op2) :
                            \A q2 \in Succeeds(op2, proxy, a2) :
                                Succeeds(op2, q1, a2) = Succeeds(op1, q2, a1)

\* A setter of the ABI that succeeded on the getter under the proxy, called
\* again with the same argument, succeeds and leaves the getter as the first
\* call left it.
SettersIdempotent(in_scope) ==
    \A op \in in_scope :
        \A a \in SetterArgs(op) :
            \A q \in Succeeds(op, proxy, a) : Succeeds(op, q, a) = {q}

\* Every setter call.
AnySetter == SetterOps

\* Every setter call but AccountGetterBase_SetAccountId_ABI on a
\* UserPrincipals getter.
OwnSetter ==
    IF Kind = "UserPrincipalsGetterImpl"
    THEN SetterOps \ {"AccountGetterBase_SetAccountId_ABI"}
    ELSE SetterOps

C21_OwnSettersHistoryIndependent ==
    Live =>
        /\ HistoryIndependent
        /\ SettersCommute(OwnSetter)
        /\ SettersIdempotent(OwnSetter)

SharedAccountIdAccessors ==
    {"AccountGetterBase_GetAccountId_ABI", "AccountGetterBase_SetAccountId_ABI"}

\* The type tag of the live getter lies in the range the shared accessors accept.
InAcceptedRange ==
    /\ proxy.type_id >= AccountGetterBaseImpl_TYPE_ID_LOW
    /\ proxy.type_id <= AccountGetterBaseImpl_TYPE_ID_HIGH

\* A shared accessor has been called on a UserPrincipals getter.
SharedAccessorOnUserPrincipals ==
    \E op \in SharedAccountIdAccessors : SetterOn(op, "UserPrincipalsGetterImpl")

\* C22: the shared account-id accessors operate only on getters that own an
\* account_id: every live getter whose type tag lies in the accepted range
\* [TYPE_ID_GETTER_ACCOUNT_INFO, TYPE_ID_GETTER_ORDERS] is an account-scoped
\* variant, and a call of either accessor on a UserPrincipals getter is not
\* accepted (it does not return 0).
C22_AccessorsOnlyOnAccountGetters ==
    /\ (Live /\ InAcceptedRange) => Kind \in AccountKinds
    /\ SharedAccessorOnUserPrincipals => last.ret # 0

\* C22 for every variant but UserPrincipals: the tag of a live getter lies in
\* the accepted range and the getter is an account-scoped variant with an
\* account_id, and a shared accessor that returned 0 on it gave or took that
\* account_id.
C22_OtherVariantsAccountScoped ==
    /\ (Live /\ Kind # "UserPrincipalsGetterImpl") =>
           /\ InAcceptedRange
           /\ Kind \in AccountKinds
           /\ "account_id" \in DOMAIN proxy.obj
    /\ (/\ last.op \in SharedAccountIdAccessors
        /\ last.ret = 0
        /\ ~SharedAccessorOnUserPrincipals) =>
           /\ pre.obj # NoObj
           /\ pre.obj.kind \in AccountKinds
           /\ last.op = "AccountGetterBase_GetAccountId_ABI" =>
                  last.out = pre.obj.account_id
           /\ last.op = "AccountGetterBase_SetAccountId_ABI" =>
                  proxy.obj.account_id = last.args.account_id.str

\* C22 fails where AccountGetterBase_GetAccountId_ABI has returned 0 on a live
\* UserPrincipals getter, whose tag lies in the accepted range, and has given
\* a string although the getter has no account_id.
C22_GetAccountIdOnUserPrincipals ==
    /\ SetterOn("AccountGetterBase_GetAccountId_ABI", "UserPrincipalsGetterImpl")
    /\ last.ret = 0
    /\ last.out \in ReinterpretedStrings
    /\ Live
    /\ InAcceptedRange
    /\ "account_id" \notin DOMAIN proxy.obj

====
